---- MODULE Spec2Model ----
(***************************************************************************)
(* its-live-monitoring: qualification, pair search, Sentinel-1 frame       *)
(* assembly, the two deduplication stages and the submission of            *)
(* its_live_monitoring/src/{main,landsat,sentinel1,sentinel2}.py.          *)
(*                                                                         *)
(* Five specifications share one set of variables:                         *)
(*   Spec        process_scene invocations against the job table, the      *)
(*               bucket and the module-level job template;                 *)
(*   SpecDedup   the two deduplication functions applied to pair tables;   *)
(*   SpecFrames  the pair search of the three missions and the Sentinel-1  *)
(*               frame assembly, on catalogs drawn from bounded sets;      *)
(*   SpecQualify the qualification predicates and the region tiler applied *)
(*               to drawn inputs;                                          *)
(*   SpecHandler lambda_handler on events of a few records.                *)
(***************************************************************************)
EXTENDS Integers, Sequences, FiniteSets, TLC

VARIABLES
    catalog,                \* what the STAC / CMR catalogs hold
    jobs_table,             \* the DynamoDB jobs table, in index order
    bucket,                 \* the keys of the publish bucket
    AUTORIFT_JOB_TEMPLATE,  \* main.py module state: the job template
    pairs,                  \* the pair table the next dedup call receives
    call,                   \* the last call: operation, argument, outcome
    now                     \* the clock; also counts the calls made

vars == <<catalog, jobs_table, bucket, AUTORIFT_JOB_TEMPLATE, pairs, call, now>>

(***************************************************************************)
(* Generic helpers.                                                        *)
(***************************************************************************)
None == "None"

Range(s) == {s[i] : i \in DOMAIN s}

Last(s) == s[Len(s)]

RECURSIVE SeqOfSet(_)
SeqOfSet(S) ==
    IF S = {} THEN <<>>
    ELSE LET x == CHOOSE y \in S : TRUE IN <<x>> \o SeqOfSet(S \ {x})

RECURSIVE SubsetsSeq(_)
\* every subsequence of s (order kept)
SubsetsSeq(s) ==
    IF s = <<>> THEN {<<>>}
    ELSE LET rest == SubsetsSeq(Tail(s))
         IN  rest \cup {<<Head(s)>> \o r : r \in rest}

SeqsUpTo(S, n) == UNION {[1..k -> S] : k \in 0..n}

Min(S) == CHOOSE x \in S : \A y \in S : x <= y
Max(S) == CHOOSE x \in S : \A y \in S : x >= y
Abs(x) == IF x < 0 THEN -x ELSE x

\* Python str.startswith / str.endswith
StartsWith(s, p) == Len(p) <= Len(s) /\ SubSeq(s, 1, Len(p)) = p
EndsWith(s, p) == Len(p) <= Len(s) /\ SubSeq(s, Len(s) - Len(p) + 1, Len(s)) = p

RECURSIVE SplitFrom(_, _, _)
\* str.split('_'): the fields of s from position i on, cur the field being read
SplitFrom(s, i, cur) ==
    IF i > Len(s) THEN <<cur>>
    ELSE IF SubSeq(s, i, i) = "_" THEN <<cur>> \o SplitFrom(s, i + 1, "")
    ELSE SplitFrom(s, i + 1, cur \o SubSeq(s, i, i))

Split(s) == SplitFrom(s, 1, "")

(***************************************************************************)
(* Time.  A datetime is a number of ticks since an epoch; the stores keep  *)
(* whole seconds.                                                          *)
(***************************************************************************)
TicksPerSecond == 2
Second == TicksPerSecond
Minute == 60 * Second
Day    == 86400 * Second

\* main.format_time: isoformat(timespec='seconds') drops the sub-second part
format_time(time) == (time \div Second) * Second

(***************************************************************************)
(* Python values that main.get_key formats and sorts: a str or a tuple of  *)
(* str.  The pair tables hold tuples (landsat.py:122, sentinel2.py:235).   *)
(***************************************************************************)
PyStr(s)   == [type |-> "str", val |-> s]
PyTuple(t) == [type |-> "tuple", val |-> t]

\* The scene names of the model, in Python's (code point) string order.
SceneOrder ==
    << "LC08_0112", "LC08_0128", "LC09_0104", "LC09_0120",
       "S2A_MSIL1C_0510_N0510_R110_T22TCR",
       "S2B_MSIL1C_0420_N0500_R110_T22TCR",
       "S2B_MSIL1C_0520_N0510_R110_T22TCR",
       "S2B_MSIL1C_0528_N0510_R110_T22TCR" >>

StrRank(s) == CHOOSE i \in DOMAIN SceneOrder : SceneOrder[i] = s

\* Python's < on str
StrLess(a, b) == StrRank(a) < StrRank(b)

RECURSIVE TupleLess(_, _)
\* Python's < on tuples of str: lexicographic
TupleLess(a, b) ==
    IF a = <<>> THEN b # <<>>
    ELSE IF b = <<>> THEN FALSE
    ELSE IF Head(a) = Head(b) THEN TupleLess(Tail(a), Tail(b))
    ELSE StrLess(Head(a), Head(b))

PyLess(a, b) ==
    IF a.type = "str" THEN StrLess(a.val, b.val) ELSE TupleLess(a.val, b.val)

\* sorted([a, b]); list.sort is stable
Sorted2(a, b) == IF PyLess(b, a) THEN <<b, a>> ELSE <<a, b>>

RECURSIVE JoinQuoted(_)
JoinQuoted(t) ==
    IF Len(t) = 1 THEN "'" \o t[1] \o "'"
    ELSE "'" \o Head(t) \o "', " \o JoinQuoted(Tail(t))

\* repr of a tuple of str: ('a',) and ('a', 'b')
TupleRepr(t) ==
    IF t = <<>> THEN "()"
    ELSE IF Len(t) = 1 THEN "(" \o JoinQuoted(t) \o ",)"
    ELSE "(" \o JoinQuoted(t) \o ")"

\* what an f-string writes for the value
Format(x) == IF x.type = "str" THEN x.val ELSE TupleRepr(x.val)

(***************************************************************************)
(* Region tiler (main.py:58-78), on whole degrees.  A float is [signbit,   *)
(* abs]: its sign bit and its magnitude, so that -0.0 and 0.0 differ.      *)
(***************************************************************************)
\* the float of an integer
Float(n) == [signbit |-> n < 0, abs |-> Abs(n)]

NegativeZero == [signbit |-> TRUE, abs |-> 0]

DigitStr == <<"0", "1", "2", "3", "4", "5", "6", "7", "8", "9">>
Digit(d) == DigitStr[d + 1]
Fmt02d(n) == Digit((n \div 10) % 10) \o Digit(n % 10)
Fmt03d(n) == Digit((n \div 100) % 10) \o Digit((n \div 10) % 10) \o Digit(n % 10)

\* int(np.abs(np.fix(x / 10) * 10)): truncation toward zero
TruncTen(x) == (Abs(x) \div 10) * 10

\* the tiler with the hemispheres taken from a comparison with zero
point_to_region_by_comparison(lat, lon) ==
    LET nw_hemisphere == IF lat.signbit /\ lat.abs > 0 THEN "S" ELSE "N"
        ew_hemisphere == IF lon.signbit /\ lon.abs > 0 THEN "W" ELSE "E"
        lat0 == TruncTen(lat.abs)
        region_lat == IF lat0 = 90 THEN 80 ELSE lat0
        lon0 == TruncTen(lon.abs)
        region_lon == IF lon0 >= 180 THEN 170 ELSE lon0
    IN  nw_hemisphere \o Fmt02d(region_lat) \o ew_hemisphere \o Fmt03d(region_lon)

\* the tiler without its bin for the pole
point_to_region_without_pole_bin(lat, lon) ==
    LET nw_hemisphere == IF lat.signbit THEN "S" ELSE "N"
        ew_hemisphere == IF lon.signbit THEN "W" ELSE "E"
        region_lat == TruncTen(lat.abs)
        lon0 == TruncTen(lon.abs)
        region_lon == IF lon0 >= 180 THEN 170 ELSE lon0
    IN  nw_hemisphere \o Fmt02d(region_lat) \o ew_hemisphere \o Fmt03d(region_lon)

\* np.signbit gives the hemispheres, the magnitudes give the bins
point_to_region(lat, lon) ==
    LET nw_hemisphere == IF lat.signbit THEN "S" ELSE "N"
        ew_hemisphere == IF lon.signbit THEN "W" ELSE "E"
        lat0 == TruncTen(lat.abs)
        region_lat == IF lat0 = 90 THEN 80 ELSE lat0
        lon0 == TruncTen(lon.abs)
        region_lon == IF lon0 >= 180 THEN 170 ELSE lon0
    IN  nw_hemisphere \o Fmt02d(region_lat) \o ew_hemisphere \o Fmt03d(region_lon)

\* the number a float stands for
Value(f) == IF f.signbit THEN 0 - f.abs ELSE f.abs

\* np.mgrid[lo : hi + 10 : 10]: ceil((hi + 10 - lo) / 10) points, the i-th
\* computed as i * 10 + lo, a sum that is never -0.0
GridPoints(lo, hi) ==
    LET size == (Value(hi) + 10 - Value(lo) + 9) \div 10
    IN  {Float(10 * i + Value(lo)) : i \in 0..(size - 1)}

\* bounds = <<min_lon, min_lat, max_lon, max_lat>>
regions_from_bounds(min_lon, min_lat, max_lon, max_lat) ==
    {point_to_region(lat, lon) : lat \in GridPoints(min_lat, max_lat),
                                 lon \in GridPoints(min_lon, max_lon)}

(***************************************************************************)
(* The publish bucket (main.py:81-105).                                    *)
(***************************************************************************)
\* s3.list_objects_v2(Bucket, Prefix)['Contents']
list_objects_v2(prefix) == {k \in bucket : StartsWith(k, prefix)}

\* The key found under the first prefix that has one, else None.  Among
\* the .nc keys of one listing the model takes any: callers test truth only.
RECURSIVE get_key_from(_, _, _)
get_key_from(tile_prefixes, reference, secondary) ==
    IF tile_prefixes = <<>> THEN None
    ELSE LET prefix == Head(tile_prefixes) \o "/" \o Format(reference) \o "_X_" \o Format(secondary)
             found  == {k \in list_objects_v2(prefix) : EndsWith(k, ".nc")}
         IN  IF found # {} THEN CHOOSE k \in found : TRUE
             ELSE get_key_from(Tail(tile_prefixes), reference, secondary)

get_key(tile_prefixes, reference, secondary) ==
    LET s == Sorted2(reference, secondary)
    IN  get_key_from(tile_prefixes, s[1], s[2])

(***************************************************************************)
(* pandas tables.  A table is its set of columns, its index labels and its *)
(* rows, one label per row.  A row carries reference and secondary (tuples *)
(* of scene names), reference_acquisition, job_name, and, from the STAC    *)
(* item of the secondary, datetime and the bounds of its geometry          *)
(* <<min_lon, min_lat, max_lon, max_lat>>.                                 *)
(***************************************************************************)
DataFrame(columns, rows) ==
    [columns |-> columns, index |-> [i \in 1..Len(rows) |-> i - 1], rows |-> rows]

\* the positions of s that keep holds of, in order
Positions(s, keep(_)) == SelectSeq([i \in 1..Len(s) |-> i], keep)

\* the table with the rows at the positions pos
TakeRows(df, pos) ==
    [columns |-> df.columns,
     index   |-> [i \in 1..Len(pos) |-> df.index[pos[i]]],
     rows    |-> [i \in 1..Len(pos) |-> df.rows[pos[i]]]]

\* DataFrame.drop(index=labels)
drop_index(df, labels) ==
    LET keep(i) == df.index[i] \notin labels
    IN  TakeRows(df, Positions(df.rows, keep))

\* set_index(['reference', 'secondary']).drop(keys).reset_index()
drop_keys_reset_index(df, keys) ==
    LET keep(i) == <<df.rows[i].reference, df.rows[i].secondary>> \notin keys
        pos == Positions(df.rows, keep)
    IN  DataFrame(df.columns, [i \in 1..Len(pos) |-> df.rows[pos[i]]])

\* GeoSeries.total_bounds
total_bounds(df) ==
    << Min({r.bounds[1] : r \in Range(df.rows)}), Min({r.bounds[2] : r \in Range(df.rows)}),
       Max({r.bounds[3] : r \in Range(df.rows)}), Max({r.bounds[4] : r \in Range(df.rows)}) >>

\* what a call gives back: the exception it raised (None: none) or its value
Return(v) == [raised |-> None, ret |-> v]
Raise(e)  == [raised |-> e, ret |-> None]

(***************************************************************************)
(* Already-published dedup (main.py:108-130).                              *)
(***************************************************************************)
s2_prefix == "velocity_image_pair/sentinel2/v02"
landsat_prefix == "velocity_image_pair/landsatOLI/v02"

deduplicate_s3_pairs(df) ==
    \* pairs['reference'][0] looks the label 0 up
    IF \A i \in DOMAIN df.index : df.index[i] # 0 THEN Raise("KeyError")
    ELSE IF "geometry" \notin df.columns THEN Raise("KeyError")
    ELSE
      LET first == df.rows[CHOOSE i \in DOMAIN df.index : df.index[i] = 0]
          prefix == IF StartsWith(first.reference[1], "S2") THEN s2_prefix ELSE landsat_prefix
          b == total_bounds(df)
          regions == regions_from_bounds(Float(b[1]), Float(b[2]), Float(b[3]), Float(b[4]))
          region_list == SeqOfSet(regions)
          tile_prefixes == [i \in DOMAIN region_list |-> prefix \o "/" \o region_list[i]]
          drop_indexes ==
              {df.index[i] : i \in {j \in DOMAIN df.rows :
                  get_key(tile_prefixes, PyTuple(df.rows[j].reference),
                          PyTuple(df.rows[j].secondary)) # None}}
      IN  Return(drop_index(df, drop_indexes))

(***************************************************************************)
(* The jobs table and the in-flight dedup (main.py:148-232).  A job is     *)
(* [user_id, status_code, request_time (whole seconds), name (None: not    *)
(* set), job_parameters, origin]; origin is the scene whose invocation     *)
(* submitted it (None: a job that was there before), kept for the claims.  *)
(***************************************************************************)
EARTHDATA_USERNAME == "hyp3.its_live"

\* The items of one DynamoDB Query response are read from a bounded stretch
\* of the index; the filter applies to what was read.
PageSize == 1

\* the first response only, whether or not it has a LastEvaluatedKey
query_first_page(partition, start, hit) ==
    LET stop  == IF start + PageSize > Len(partition) THEN Len(partition) ELSE start + PageSize
        inpage(i) == start < i /\ i <= stop /\ hit[i]
        found == Positions(partition, inpage)
    IN  [i \in 1..Len(found) |-> partition[found[i]]]

RECURSIVE query_pages(_, _, _)
\* the loop of main.py:173-179 from ExclusiveStartKey = start on; hit[i] is
\* the FilterExpression on partition[i]
query_pages(partition, start, hit) ==
    LET stop  == IF start + PageSize > Len(partition) THEN Len(partition) ELSE start + PageSize
        inpage(i) == start < i /\ i <= stop /\ hit[i]
        found == Positions(partition, inpage)
        Items == [i \in 1..Len(found) |-> partition[found[i]]]
    IN  IF stop >= Len(partition) THEN Items     \* no LastEvaluatedKey
        ELSE Items \o query_pages(partition, stop, hit)

Reverse(s) == [i \in 1..Len(s) |-> s[Len(s) + 1 - i]]

query_jobs_by_status_code(status_code, user, name, start) ==
    LET key_expression(j) == j.status_code = status_code
        filter_expression(j) ==
            /\ j.user_id = user
            /\ j.name = name
            /\ j.request_time >= format_time(start)
        \* IndexName status_code, ScanIndexForward False
        partition == Reverse(SelectSeq(jobs_table, key_expression))
    IN  query_pages(partition, 0, [i \in 1..Len(partition) |-> filter_expression(partition[i])])

get_reference_secondary_from_Job(job) ==
    \* granules is <<>> when the job has none
    IF job.job_parameters.granules # <<>>
    THEN << SubSeq(job.job_parameters.granules, 1, 1),
            SubSeq(job.job_parameters.granules, 2, Len(job.job_parameters.granules)) >>
    ELSE << job.job_parameters.reference, job.job_parameters.secondary >>

deduplicate_hyp3_pairs(df) ==
    \* pairs.iloc[0]
    IF Len(df.rows) = 0 THEN Raise("IndexError")
    ELSE IF {"job_name", "reference_acquisition"} \ df.columns # {} THEN Raise("AttributeError")
    ELSE
      LET pending_jobs == query_jobs_by_status_code("PENDING", EARTHDATA_USERNAME,
                              df.rows[1].job_name, df.rows[1].reference_acquisition)
          running_jobs == query_jobs_by_status_code("RUNNING", EARTHDATA_USERNAME,
                              df.rows[1].job_name, df.rows[1].reference_acquisition)
          jobs == pending_jobs \o running_jobs
          keys == {get_reference_secondary_from_Job(jobs[i]) : i \in DOMAIN jobs}
          pair_keys == {<<r.reference, r.secondary>> : r \in Range(df.rows)}
          duplicates == keys \cap pair_keys
      IN  Return(drop_keys_reset_index(df, duplicates))

(***************************************************************************)
(* Landsat (landsat.py).  A STAC item is [id, collection_id, datetime,     *)
(* instruments, category, wrs_path, wrs_row, cloud_cover_land (<<c>>, or   *)
(* <<>> with the property missing), off_nadir, bounds].  catalog.landsat   *)
(* is the sequence of the items of the collection, in the order a search   *)
(* lists them; catalog.leaked is the set of ids of the items the catalog   *)
(* lists for a neighbouring tile as well.                                  *)
(***************************************************************************)
LANDSAT_COLLECTION_NAME == "landsat-c2l1"
LANDSAT_TILES_TO_PROCESS == {"138041", "001005"}
LANDSAT_MAX_PAIR_SEPARATION_IN_DAYS == 544
LANDSAT_MAX_CLOUD_COVER_PERCENT == 60

\* LANDSAT_COLLECTION.get_item(scene): <<item>>, or <<>> for None
get_item(scene) ==
    LET hit(item) == item.id = scene
        found == SelectSeq(catalog.landsat, hit)
    IN  IF found = <<>> THEN <<>> ELSE <<found[1]>>

get_landsat_stac_item(scene) ==
    IF get_item(scene) = <<>> THEN Raise("ValueError") ELSE Return(get_item(scene)[1])

\* the predicate without its check of the tier
qualifies_for_landsat_in_any_tier(item, max_cloud_cover) ==
    IF item.collection_id # LANDSAT_COLLECTION_NAME THEN FALSE
    ELSE IF "OLI" \notin item.instruments THEN FALSE
    ELSE IF (item.wrs_path \o item.wrs_row) \notin LANDSAT_TILES_TO_PROCESS THEN FALSE
    ELSE IF (IF item.cloud_cover_land = <<>> THEN -1 ELSE item.cloud_cover_land[1]) < 0 THEN FALSE
    ELSE IF item.cloud_cover_land[1] > max_cloud_cover THEN FALSE
    ELSE TRUE

\* the predicate with the cloud cover comparison turned round
qualifies_for_landsat_above_limit(item, max_cloud_cover) ==
    IF item.collection_id # LANDSAT_COLLECTION_NAME THEN FALSE
    ELSE IF "OLI" \notin item.instruments THEN FALSE
    ELSE IF item.category \notin {"T1", "T2"} THEN FALSE
    ELSE IF (item.wrs_path \o item.wrs_row) \notin LANDSAT_TILES_TO_PROCESS THEN FALSE
    ELSE IF (IF item.cloud_cover_land = <<>> THEN -1 ELSE item.cloud_cover_land[1]) < 0 THEN FALSE
    ELSE IF item.cloud_cover_land[1] < max_cloud_cover THEN FALSE
    ELSE TRUE

\* the predicate with the cloud cover limit excluded
qualifies_for_landsat_below_limit(item, max_cloud_cover) ==
    IF item.collection_id # LANDSAT_COLLECTION_NAME THEN FALSE
    ELSE IF "OLI" \notin item.instruments THEN FALSE
    ELSE IF item.category \notin {"T1", "T2"} THEN FALSE
    ELSE IF (item.wrs_path \o item.wrs_row) \notin LANDSAT_TILES_TO_PROCESS THEN FALSE
    ELSE IF (IF item.cloud_cover_land = <<>> THEN -1 ELSE item.cloud_cover_land[1]) < 0 THEN FALSE
    ELSE IF item.cloud_cover_land[1] >= max_cloud_cover THEN FALSE
    ELSE TRUE

qualifies_for_landsat_processing(item, max_cloud_cover) ==
    IF item.collection_id # LANDSAT_COLLECTION_NAME THEN FALSE
    ELSE IF "OLI" \notin item.instruments THEN FALSE
    ELSE IF item.category \notin {"T1", "T2"} THEN FALSE
    ELSE IF (item.wrs_path \o item.wrs_row) \notin LANDSAT_TILES_TO_PROCESS THEN FALSE
    ELSE IF (IF item.cloud_cover_land = <<>> THEN -1 ELSE item.cloud_cover_land[1]) < 0 THEN FALSE
    ELSE IF item.cloud_cover_land[1] > max_cloud_cover THEN FALSE
    ELSE TRUE

\* LANDSAT_CATALOG.search(collections, query, datetime): the items the
\* catalog lists for the query, both ends of the time range included.  The
\* catalog is a service outside the program: the items in catalog.leaked are
\* those its index lists for a neighbouring tile's query as well.
landsat_search(collection_id, wrs_path, wrs_row, off_nadir_positive, from, to) ==
    LET matches(item) ==
            /\ item.collection_id = collection_id
            /\ \/ item.wrs_path = wrs_path /\ item.wrs_row = wrs_row
               \/ item.id \in catalog.leaked
            /\ (item.off_nadir > 0) = off_nadir_positive
            /\ from <= item.datetime /\ item.datetime <= to
    IN  SelectSeq(catalog.landsat, matches)

LandsatColumns ==
    {"geometry", "datetime", "reference", "secondary", "reference_acquisition", "job_name"}

\* a search that ends at the reference itself
landsat_search_end_at_reference(reference) == reference.datetime

landsat_search_end(reference) == reference.datetime - 1 * Second

get_landsat_pairs_for_reference_scene(reference) ==
    LET max_pair_separation == LANDSAT_MAX_PAIR_SEPARATION_IN_DAYS * Day
        results == landsat_search(reference.collection_id, reference.wrs_path, reference.wrs_row,
                                  reference.off_nadir > 0,
                                  reference.datetime - max_pair_separation,
                                  landsat_search_end(reference))
        ok(item) == qualifies_for_landsat_processing(item, LANDSAT_MAX_CLOUD_COVER_PERCENT)
        items == SelectSeq(results, ok)
    IN  IF Len(items) = 0 THEN DataFrame({"reference", "secondary"}, <<>>)
        ELSE DataFrame(LandsatColumns,
                 [i \in 1..Len(items) |->
                     [reference |-> <<reference.id>>,
                      secondary |-> <<items[i].id>>,
                      reference_acquisition |-> reference.datetime,
                      job_name |-> reference.id,
                      datetime |-> items[i].datetime,
                      bounds |-> items[i].bounds]])

(***************************************************************************)
(* Sentinel-2 (sentinel2.py).  An item is [id, product_uri, collection_id, *)
(* datetime, product_type, instruments, grid_code, cloud_cover (<<c>>, or  *)
(* <<>> when missing), coverage (<<dataCoveragePercentage>> of its         *)
(* tileInfo, <<>> when the request fails), bounds].  catalog.google is the *)
(* set of scenes whose manifest is in Google Cloud.                        *)
(***************************************************************************)
SENTINEL2_COLLECTION_NAME == "sentinel-2-l1c"
SENTINEL2_TILES_TO_PROCESS == {"MGRS-22TCR", "MGRS-13CES"}
SENTINEL2_MAX_PAIR_SEPARATION_IN_DAYS == 544
SENTINEL2_MIN_PAIR_SEPARATION_IN_DAYS == 5
SENTINEL2_MAX_CLOUD_COVER_PERCENT == 70
SENTINEL2_MIN_DATA_COVERAGE == 70

\* str.removesuffix('.SAFE')
removesuffix_SAFE(s) == IF EndsWith(s, ".SAFE") THEN SubSeq(s, 1, Len(s) - 5) ELSE s

raise_for_missing_in_google_cloud(scene_name) ==
    IF scene_name \in catalog.google THEN Return(None) ELSE Raise("HTTPError")

get_data_coverage_for_item(item) ==
    IF item.coverage = <<>> THEN Raise("HTTPError") ELSE Return(item.coverage[1])

get_sentinel2_stac_item(scene) ==
    LET hit(item) == item.collection_id = SENTINEL2_COLLECTION_NAME
                     /\ item.product_uri = scene \o ".SAFE"
        items == SelectSeq(catalog.sentinel2, hit)
    IN  IF Len(items) # 1 THEN Raise("ValueError") ELSE Return(items[1])

is_new_scene(scene_name) == Split(scene_name)[4] # "N0500"

\* the predicate with the minimum data coverage admitted
qualifies_for_sentinel2_at_minimum(item, relative_orbit, max_cloud_cover) ==
    LET item_scene_id == removesuffix_SAFE(item.product_uri)
    IN  IF relative_orbit # None /\ Split(item_scene_id)[5] # relative_orbit THEN Return(FALSE)
        ELSE IF item.collection_id # SENTINEL2_COLLECTION_NAME THEN Return(FALSE)
        ELSE IF ~is_new_scene(item_scene_id) THEN Return(FALSE)
        ELSE IF ~EndsWith(item.product_type, "1C") THEN Return(FALSE)
        ELSE IF "msi" \notin item.instruments THEN Return(FALSE)
        ELSE IF item.grid_code \notin SENTINEL2_TILES_TO_PROCESS THEN Return(FALSE)
        ELSE IF (IF item.cloud_cover = <<>> THEN -1 ELSE item.cloud_cover[1]) < 0 THEN Return(FALSE)
        ELSE IF item.cloud_cover[1] > max_cloud_cover THEN Return(FALSE)
        ELSE IF get_data_coverage_for_item(item).raised # None
             THEN Raise(get_data_coverage_for_item(item).raised)
        ELSE IF get_data_coverage_for_item(item).ret < SENTINEL2_MIN_DATA_COVERAGE THEN Return(FALSE)
        ELSE Return(TRUE)

\* relative_orbit: None when no orbit is asked for.  Gives Return(TRUE or
\* FALSE), or the exception of the data coverage request.
qualifies_for_sentinel2_processing(item, relative_orbit, max_cloud_cover) ==
    LET item_scene_id == removesuffix_SAFE(item.product_uri)
    IN  IF relative_orbit # None /\ Split(item_scene_id)[5] # relative_orbit THEN Return(FALSE)
        ELSE IF item.collection_id # SENTINEL2_COLLECTION_NAME THEN Return(FALSE)
        ELSE IF ~is_new_scene(item_scene_id) THEN Return(FALSE)
        ELSE IF ~EndsWith(item.product_type, "1C") THEN Return(FALSE)
        ELSE IF "msi" \notin item.instruments THEN Return(FALSE)
        ELSE IF item.grid_code \notin SENTINEL2_TILES_TO_PROCESS THEN Return(FALSE)
        ELSE IF (IF item.cloud_cover = <<>> THEN -1 ELSE item.cloud_cover[1]) < 0 THEN Return(FALSE)
        ELSE IF item.cloud_cover[1] > max_cloud_cover THEN Return(FALSE)
        ELSE IF get_data_coverage_for_item(item).raised # None
             THEN Raise(get_data_coverage_for_item(item).raised)
        ELSE IF get_data_coverage_for_item(item).ret <= SENTINEL2_MIN_DATA_COVERAGE THEN Return(FALSE)
        ELSE Return(TRUE)

\* SENTINEL2_CATALOG.search(collections, query, datetime); catalog.leaked as
\* for the Landsat search
sentinel2_search(collection_id, grid_code, max_cloud_cover, from, to) ==
    LET matches(item) ==
            /\ item.collection_id = collection_id
            /\ (item.grid_code = grid_code \/ item.id \in catalog.leaked)
            /\ item.cloud_cover # <<>> /\ item.cloud_cover[1] <= max_cloud_cover
            /\ from <= item.datetime /\ item.datetime <= to
    IN  SelectSeq(catalog.sentinel2, matches)

Sentinel2Columns ==
    {"geometry", "datetime", "reference", "secondary", "reference_acquisition", "job_name"}

sentinel2_search_end(reference) ==
    reference.datetime - SENTINEL2_MIN_PAIR_SEPARATION_IN_DAYS * Day

get_sentinel2_pairs_for_reference_scene(reference) ==
    LET max_pair_separation == SENTINEL2_MAX_PAIR_SEPARATION_IN_DAYS * Day
        max_cloud_cover == SENTINEL2_MAX_CLOUD_COVER_PERCENT
        results == sentinel2_search(reference.collection_id, reference.grid_code, max_cloud_cover,
                                    reference.datetime - max_pair_separation,
                                    sentinel2_search_end(reference))
        reference_scene_id == removesuffix_SAFE(reference.product_uri)
        reference_orbit == Split(reference_scene_id)[5]
        q(item) == qualifies_for_sentinel2_processing(item, reference_orbit, max_cloud_cover)
        failed == {i \in DOMAIN results : q(results[i]).raised # None}
        ok(item) == q(item).ret = TRUE
        items == SelectSeq(results, ok)
    IN  IF failed # {} THEN Raise(q(results[Min(failed)]).raised)
        ELSE IF Len(items) = 0
        THEN Return(DataFrame({"reference", "reference_acquisition", "secondary", "job_name"}, <<>>))
        ELSE Return(DataFrame(Sentinel2Columns,
                 [i \in 1..Len(items) |->
                     [reference |-> <<reference_scene_id>>,
                      secondary |-> <<removesuffix_SAFE(items[i].product_uri)>>,
                      reference_acquisition |-> reference.datetime,
                      job_name |-> reference_scene_id,
                      datetime |-> items[i].datetime,
                      bounds |-> items[i].bounds]]))

(***************************************************************************)
(* Sentinel-1 (sentinel1.py).  A burst product is [sceneName, startTime,   *)
(* polarization, fullBurstID].  catalog.sentinel1 is the sequence of the   *)
(* products CMR holds, in the order a search lists them.  The two lookup   *)
(* tables are read from JSON files at import; the model has a frame of six *)
(* and a frame of seven bursts that share two bursts.                      *)
(***************************************************************************)
OPERA_FRAMES_TO_BURST_IDS ==
    [frame_id \in {1, 2} |->
        IF frame_id = 1 THEN <<"b01", "b02", "b03", "b04", "b05", "b06">>
        ELSE <<"b05", "b06", "b07", "b08", "b09", "b10", "b11">>]

BurstIds == UNION {Range(OPERA_FRAMES_TO_BURST_IDS[f]) : f \in DOMAIN OPERA_FRAMES_TO_BURST_IDS}

BURST_IDS_TO_OPERA_FRAMES ==
    [burst_id \in BurstIds |->
        IF burst_id \in {"b05", "b06"} THEN <<1, 2>>
        ELSE IF burst_id \in Range(OPERA_FRAMES_TO_BURST_IDS[1]) THEN <<1>> ELSE <<2>>]

SENTINEL1_BURSTS_TO_PROCESS == BurstIds \ {"b10"}
SENTINEL1_MAX_PAIR_SEPARATION_IN_DAYS == 12

RECURSIVE Concat(_)
\* pd.concat of a list of tables; also the flattening of nested loops
Concat(ss) == IF ss = <<>> THEN <<>> ELSE Head(ss) \o Concat(Tail(ss))

\* asf.granule_search(scene)
get_sentinel1_cmr_item(scene) ==
    LET hit(p) == p.sceneName = scene
        results == SelectSeq(catalog.sentinel1, hit)
    IN  IF Len(results) = 0 THEN Raise("ValueError") ELSE Return(results[1])

\* the predicate admitting VV only
product_qualifies_for_sentinel1_vv_only(product) ==
    IF product.fullBurstID \notin SENTINEL1_BURSTS_TO_PROCESS THEN FALSE
    ELSE IF product.polarization \notin {"VV"} THEN FALSE
    ELSE TRUE

product_qualifies_for_sentinel1_processing(product) ==
    IF product.fullBurstID \notin SENTINEL1_BURSTS_TO_PROCESS THEN FALSE
    ELSE IF product.polarization \notin {"VV", "HH"} THEN FALSE
    ELSE TRUE

\* asf.search(fullBurstID, start, end, polarization)
asf_search(fullBurstID, start, end, polarization) ==
    LET matches(p) ==
            /\ p.fullBurstID = fullBurstID
            /\ p.polarization = polarization
            /\ start <= p.startTime /\ p.startTime <= end
    IN  SelectSeq(catalog.sentinel1, matches)

\* timedelta(minutes=3) of sentinel1.py:67, 68 and 85
ToleranceMinutes == 3

\* the check made on the last result instead of the first
reference_in_stack_last(ref_date, stack) ==
    ref_date - ToleranceMinutes * Minute < Last(stack).startTime

\* the check of sentinel1.py:85 on the stack a search returned
reference_in_stack(ref_date, stack) ==
    ref_date - ToleranceMinutes * Minute < stack[1].startTime

\* the loop body without its check for a secondary
stack_error_no_secondary_check(ref_date, stack, burst_id) ==
    IF Len(stack) = 0 THEN "ValueError: No bursts found in " \o burst_id
    ELSE IF ~reference_in_stack(ref_date, stack) THEN "ValueError: No reference " \o burst_id
    ELSE None

\* what the loop body of sentinel1.py:78-93 does with the stack of burst_id:
\* the message of the ValueError it raises, or None
stack_error(ref_date, stack, burst_id) ==
    IF Len(stack) = 0 THEN "ValueError: No bursts found in " \o burst_id
    ELSE IF ~reference_in_stack(ref_date, stack) THEN "ValueError: No reference " \o burst_id
    ELSE IF Len(stack) < 2 THEN "ValueError: No secondary " \o burst_id
    ELSE None

get_frame_stacks(reference) ==
    LET reference_burst_id == reference.fullBurstID
        ref_date == reference.startTime
        start == ref_date - (SENTINEL1_MAX_PAIR_SEPARATION_IN_DAYS * Day + ToleranceMinutes * Minute)
        end == ref_date + ToleranceMinutes * Minute
        polarization == Split(reference.sceneName)[5]
        frame_ids == BURST_IDS_TO_OPERA_FRAMES[reference_burst_id]
        \* the searches in the order the two loops make them
        searches == Concat([k \in DOMAIN frame_ids |->
                        [n \in DOMAIN OPERA_FRAMES_TO_BURST_IDS[frame_ids[k]] |->
                            [frame_id |-> frame_ids[k],
                             burst_id |-> OPERA_FRAMES_TO_BURST_IDS[frame_ids[k]][n]]]])
        stack(i) == asf_search(searches[i].burst_id, start, end, polarization)
        error(i) == stack_error(ref_date, stack(i), searches[i].burst_id)
        failing == {i \in DOMAIN searches : error(i) # None}
        rows(i) == [n \in DOMAIN stack(i) |->
                       [sceneName |-> stack(i)[n].sceneName,
                        startTime |-> stack(i)[n].startTime,
                        polarization |-> stack(i)[n].polarization,
                        fullBurstID |-> stack(i)[n].fullBurstID,
                        frame_id |-> searches[i].frame_id]]
    IN  IF failing # {} THEN Raise(error(Min(failing)))
        ELSE Return(Concat([i \in DOMAIN searches |-> rows(i)]))

\* the least number of rows of a day-group, sentinel1.py:116
MinFrameBursts == 5

\* the check without its quorum test
frame_qualifies_without_quorum(frame, frame_id) ==
    LET expected_burst_ids == Range(OPERA_FRAMES_TO_BURST_IDS[frame_id])
        frame_burst_ids == {frame[i].fullBurstID : i \in DOMAIN frame}
    IN  IF ~(frame_burst_ids \subseteq expected_burst_ids) THEN FALSE
        ELSE TRUE

\* frame: the rows of one day-group
frame_qualifies_for_sentinel1_processing(frame, frame_id) ==
    LET expected_burst_ids == Range(OPERA_FRAMES_TO_BURST_IDS[frame_id])
        frame_burst_ids == {frame[i].fullBurstID : i \in DOMAIN frame}
    IN  IF ~(frame_burst_ids \subseteq expected_burst_ids) THEN FALSE
        ELSE IF Len(frame) < MinFrameBursts THEN FALSE
        ELSE TRUE

DayOf(t) == t \div Day

RECURSIVE IntStr(_)
IntStr(n) == IF n < 10 THEN Digit(n) ELSE IntStr(n \div 10) \o Digit(n % 10)

\* f'OPERA_{frame}_{ref_date.isoformat()}'; the time is written as its ticks
opera_job_name(frame, ref_date) == "OPERA_" \o IntStr(frame) \o "_" \o IntStr(ref_date)

Sentinel1Columns == {"reference", "reference_acquisition", "secondary", "job_name"}

\* groupby(pd.Grouper(key='startTime', freq='D', sort=True)): one group per
\* day from the first to the last day of the rows, empty days included
day_groups(rows) ==
    LET days == {DayOf(rows[i].startTime) : i \in DOMAIN rows}
        first == Min(days)
    IN  [k \in 1..(Max(days) - first + 1) |->
            LET onday(r) == DayOf(r.startTime) = first + k - 1
            IN  SelectSeq(rows, onday)]

RECURSIVE unique(_)
\* Series.unique(): the values in order of first appearance
unique(s) ==
    IF s = <<>> THEN <<>>
    ELSE LET rest == unique(SubSeq(s, 1, Len(s) - 1))
         IN  IF Last(s) \in Range(rest) THEN rest ELSE Append(rest, Last(s))

\* the pairs of one frame, or the AssertionError of sentinel1.py:148
frame_pairs(df, frame) ==
    LET offrame(r) == r.frame_id = frame
        frames == day_groups(SelectSeq(df, offrame))
        ref_products == Last(frames)
        ref_date == Min({ref_products[i].startTime : i \in DOMAIN ref_products})
        qualifying(k) == frame_qualifies_for_sentinel1_processing(frames[k], frame)
        secs == Positions(SubSeq(frames, 1, Len(frames) - 1), qualifying)
    IN  IF ~frame_qualifies_for_sentinel1_processing(ref_products, frame)
        THEN Raise("AssertionError")
        ELSE Return([n \in DOMAIN secs |->
                 [reference |-> [i \in DOMAIN ref_products |-> ref_products[i].sceneName],
                  reference_acquisition |-> ref_date,
                  secondary |-> [i \in DOMAIN frames[secs[n]] |-> frames[secs[n]][i].sceneName],
                  job_name |-> opera_job_name(frame, ref_date),
                  datetime |-> 0,
                  bounds |-> <<>>]])

get_sentinel1_pairs_for_reference_scene(reference) ==
    LET stacks == get_frame_stacks(reference)
        df == stacks.ret
        frame_ids == unique([i \in DOMAIN df |-> df[i].frame_id])
        failing == {k \in DOMAIN frame_ids : frame_pairs(df, frame_ids[k]).raised # None}
    IN  IF stacks.raised # None THEN Raise(stacks.raised)
        ELSE IF failing # {} THEN Raise(frame_pairs(df, frame_ids[Min(failing)]).raised)
        ELSE Return(DataFrame(Sentinel1Columns,
                 Concat([k \in DOMAIN frame_ids |-> frame_pairs(df, frame_ids[k]).ret])))

(***************************************************************************)
(* Submission (main.py:37-49, 235-260).  AUTORIFT_JOB_TEMPLATE is the      *)
(* module-level dict: [job_type, name (None: no such key), job_parameters];*)
(* job_parameters is one dict object, [reference, secondary (<<>>: no such *)
(* key), publish_bucket (None: no such key), granules (<<>>: none)].       *)
(***************************************************************************)
PUBLISH_BUCKET == "its-live-data"

TemplateAtImport ==
    [job_type |-> "AUTORIFT",
     name |-> None,
     job_parameters |-> [reference |-> <<>>, secondary |-> <<>>,
                         publish_bucket |-> None, granules |-> <<>>]]

RECURSIVE set_job_parameters(_, _)
\* The loop of main.py:237-246 on the dict that every prepared_job shares:
\* dict.copy() copies the top level only, so prepared_job['job_parameters']
\* is AUTORIFT_JOB_TEMPLATE['job_parameters'] itself.
set_job_parameters(rows, job_parameters) ==
    IF rows = <<>> THEN job_parameters
    ELSE set_job_parameters(Tail(rows),
             [job_parameters EXCEPT !.reference = Head(rows).reference,
                                    !.secondary = Head(rows).secondary,
                                    !.publish_bucket =
                                        IF PUBLISH_BUCKET # "" THEN PUBLISH_BUCKET ELSE @])

\* The prepared jobs as they are when main.py:258 sends them.  Line 239,
\* prepared_job['name']: name, is an annotation: it sets no key.
prepared_jobs(rows, template) ==
    [i \in DOMAIN rows |->
        [job_type |-> template.job_type,
         name |-> template.name,
         job_parameters |-> set_job_parameters(rows, template.job_parameters)]]

\* hyp3.submit_prepared_jobs: the API stores each job for the user, PENDING
submit_prepared_jobs(batch, time) ==
    [i \in DOMAIN batch |->
        [user_id |-> EARTHDATA_USERNAME,
         status_code |-> "PENDING",
         request_time |-> format_time(time),
         name |-> batch[i].name,
         job_type |-> batch[i].job_type,
         job_parameters |-> batch[i].job_parameters,
         origin |-> None]]

\* ret: the jobs submitted; template: the module-level dict afterwards
submit_pairs_for_processing(df, template, time) ==
    IF {"reference", "secondary", "job_name"} \ df.columns # {}
    THEN [raised |-> "KeyError", ret |-> <<>>, template |-> template]
    ELSE [raised |-> None,
          ret |-> submit_prepared_jobs(prepared_jobs(df.rows, template), time),
          template |-> [template EXCEPT
                           !.job_parameters = set_job_parameters(df.rows, @)]]

(***************************************************************************)
(* process_scene (main.py:263-322).  The result names the exception or the *)
(* jobs submitted, the module-level template afterwards, the counts the    *)
(* three log.info lines write (-1: line not reached) and the stages run.   *)
(***************************************************************************)
\* lines 276-292 with the Landsat reference not put to its filter
find_pairs_unfiltered_landsat(scene) ==
    IF StartsWith(scene, "S2") THEN
        IF ~is_new_scene(scene) THEN Return(<<>>)
        ELSE IF get_sentinel2_stac_item(scene).raised # None
             THEN Raise(get_sentinel2_stac_item(scene).raised)
        ELSE LET reference == get_sentinel2_stac_item(scene).ret
                 q == qualifies_for_sentinel2_processing(reference, None,
                                                         SENTINEL2_MAX_CLOUD_COVER_PERCENT)
                 found == get_sentinel2_pairs_for_reference_scene(reference)
             IN  IF q.raised # None THEN Raise(q.raised)
                 ELSE IF ~q.ret THEN Return(<<>>)
                 ELSE IF raise_for_missing_in_google_cloud(scene).raised # None
                      THEN Raise(raise_for_missing_in_google_cloud(scene).raised)
                 ELSE IF found.raised # None THEN Raise(found.raised)
                 ELSE Return(<<found.ret>>)
    ELSE IF StartsWith(scene, "L") THEN
        IF get_landsat_stac_item(scene).raised # None
        THEN Raise(get_landsat_stac_item(scene).raised)
        ELSE LET reference == get_landsat_stac_item(scene).ret
             IN  Return(<<get_landsat_pairs_for_reference_scene(reference)>>)
    ELSE IF StartsWith(scene, "S1") THEN
        IF get_sentinel1_cmr_item(scene).raised # None
        THEN Raise(get_sentinel1_cmr_item(scene).raised)
        ELSE LET reference == get_sentinel1_cmr_item(scene).ret
                 found == get_sentinel1_pairs_for_reference_scene(reference)
             IN  IF ~product_qualifies_for_sentinel1_processing(reference) THEN Return(<<>>)
                 ELSE IF found.raised # None THEN Raise(found.raised)
                 ELSE Return(<<found.ret>>)
    ELSE Return(<<>>)

\* lines 276-292: Return(<<pairs>>), Return(<<>>) for pairs = None, or Raise
find_pairs(scene) ==
    IF StartsWith(scene, "S2") THEN
        IF ~is_new_scene(scene) THEN Return(<<>>)
        ELSE IF get_sentinel2_stac_item(scene).raised # None
             THEN Raise(get_sentinel2_stac_item(scene).raised)
        ELSE LET reference == get_sentinel2_stac_item(scene).ret
                 q == qualifies_for_sentinel2_processing(reference, None,
                                                         SENTINEL2_MAX_CLOUD_COVER_PERCENT)
                 found == get_sentinel2_pairs_for_reference_scene(reference)
             IN  IF q.raised # None THEN Raise(q.raised)
                 ELSE IF ~q.ret THEN Return(<<>>)
                 ELSE IF raise_for_missing_in_google_cloud(scene).raised # None
                      THEN Raise(raise_for_missing_in_google_cloud(scene).raised)
                 ELSE IF found.raised # None THEN Raise(found.raised)
                 ELSE Return(<<found.ret>>)
    ELSE IF StartsWith(scene, "L") THEN
        IF get_landsat_stac_item(scene).raised # None
        THEN Raise(get_landsat_stac_item(scene).raised)
        ELSE LET reference == get_landsat_stac_item(scene).ret
             IN  IF qualifies_for_landsat_processing(reference, LANDSAT_MAX_CLOUD_COVER_PERCENT)
                 THEN Return(<<get_landsat_pairs_for_reference_scene(reference)>>)
                 ELSE Return(<<>>)
    ELSE IF StartsWith(scene, "S1") THEN
        IF get_sentinel1_cmr_item(scene).raised # None
        THEN Raise(get_sentinel1_cmr_item(scene).raised)
        ELSE LET reference == get_sentinel1_cmr_item(scene).ret
                 found == get_sentinel1_pairs_for_reference_scene(reference)
             IN  IF ~product_qualifies_for_sentinel1_processing(reference) THEN Return(<<>>)
                 ELSE IF found.raised # None THEN Raise(found.raised)
                 ELSE Return(<<found.ret>>)
    ELSE Return(<<>>)

Outcome(raised, jobs, template, found, hyp3, s3, stages) ==
    [raised |-> raised, ret |-> jobs, template |-> template,
     found |-> found, after_hyp3 |-> hyp3, after_s3 |-> s3, stages |-> stages]

\* the one element of a singleton
The(S) == CHOOSE x \in S : TRUE

\* lines 313-322, after2 being the table the dedup stages left
submit_stage(submit, template, time, n0, n1, n2, stages, after2) ==
    IF ~submit THEN Outcome(None, <<>>, template, n0, n1, n2, stages)
    ELSE The({ Outcome(sent.raised, sent.ret, sent.template, n0, n1, n2,
                       stages \cup {"submit"})
               : sent \in {submit_pairs_for_processing(after2, template, time)} })

\* lines 304-311, after1 being the table the in-flight dedup left
s3_stage(scene, submit, template, time, n0, n1, stages, after1) ==
    IF Len(after1.rows) > 0 /\ ~StartsWith(scene, "S1")
    THEN The({ IF s3.raised # None
               THEN Outcome(s3.raised, <<>>, template, n0, n1, -1, stages \cup {"s3"})
               ELSE submit_stage(submit, template, time, n0, n1, Len(s3.ret.rows),
                                 stages \cup {"s3"}, s3.ret)
               : s3 \in {deduplicate_s3_pairs(after1)} })
    ELSE submit_stage(submit, template, time, n0, n1, -1, stages, after1)

\* lines 294-302 without the in-flight dedup
hyp3_stage_without_in_flight_dedup(scene, submit, template, time, found) ==
    s3_stage(scene, submit, template, time, Len(found.rows), -1, {}, found)

\* lines 294-302, found being the table the pair search returned
hyp3_stage(scene, submit, template, time, found) ==
    IF Len(found.rows) > 0
    THEN The({ IF hyp3.raised # None
               THEN Outcome(hyp3.raised, <<>>, template, Len(found.rows), -1, -1, {"hyp3"})
               ELSE s3_stage(scene, submit, template, time, Len(found.rows),
                             Len(hyp3.ret.rows), {"hyp3"}, hyp3.ret)
               : hyp3 \in {deduplicate_hyp3_pairs(found)} })
    ELSE s3_stage(scene, submit, template, time, 0, -1, {}, found)

process_scene(scene, submit, template, time) ==
    The({ IF search.raised # None
          THEN Outcome(search.raised, <<>>, template, -1, -1, -1, {})
          ELSE IF search.ret = <<>>
          THEN Outcome(None, <<>>, template, -1, -1, -1, {})
          ELSE hyp3_stage(scene, submit, template, time, search.ret[1])
          : search \in {find_pairs(scene)} })

(***************************************************************************)
(* The catalogs the specifications draw from.                              *)
(***************************************************************************)
NoCall == [op |-> "none", arg |-> <<>>, out |-> Return(<<>>)]

EmptyCatalog ==
    [landsat |-> <<>>, sentinel2 |-> <<>>, google |-> {}, sentinel1 |-> <<>>, leaked |-> {}]

\* every sequence that takes, slot by slot, one of the slot's choices or none
RECURSIVE Choose(_)
Choose(slots) ==
    IF slots = <<>> THEN {<<>>}
    ELSE LET rest == Choose(Tail(slots))
         IN  rest \cup {<<x>> \o r : x \in Head(slots), r \in rest}

\* ---- Landsat: the reference LC08_0128 and up to three earlier scenes ----
LandsatRefTime == 600 * Day + 4 * 3600 * Second + 1

LandsatItem(id, datetime, cloud, wrs_row) ==
    [id |-> id, collection_id |-> LANDSAT_COLLECTION_NAME, datetime |-> datetime,
     instruments |-> {"OLI", "TIRS"}, category |-> "T1",
     wrs_path |-> "138", wrs_row |-> wrs_row,
     cloud_cover_land |-> cloud, off_nadir |-> 0,
     bounds |-> <<-50, 60, -45, 62>>]

LandsatReference(cloud) == LandsatItem("LC08_0128", LandsatRefTime, cloud, "041")

LandsatSearchSlots ==
    << { LandsatItem("LC09_0120", LandsatRefTime - 8 * Day, <<50>>, "041"),
         LandsatItem("LC09_0120", LandsatRefTime - 1, <<50>>, "041"),
         LandsatItem("LC09_0120", LandsatRefTime - Second, <<50>>, "041"),
         LandsatItem("LC09_0120", LandsatRefTime - 8 * Day, <<61>>, "041") },
       { LandsatItem("LC08_0112", LandsatRefTime - 16 * Day, <<60>>, "041"),
         LandsatItem("LC08_0112", LandsatRefTime - LANDSAT_MAX_PAIR_SEPARATION_IN_DAYS * Day, <<50>>, "041"),
         LandsatItem("LC08_0112", LandsatRefTime - LANDSAT_MAX_PAIR_SEPARATION_IN_DAYS * Day - 1, <<50>>, "041"),
         LandsatItem("LC08_0112", LandsatRefTime - 16 * Day, <<50>>, "042") },
       { LandsatItem("LC09_0104", LandsatRefTime - 24 * Day, <<50>>, "041"),
         LandsatItem("LC09_0104", LandsatRefTime - 24 * Day, <<>>, "041") } >>

\* ---- Sentinel-2: the reference ..._0528_... and up to three earlier ----
Sentinel2RefTime == 600 * Day + 1

Sentinel2Item(scene, datetime, cloud, coverage) ==
    [id |-> scene, product_uri |-> scene \o ".SAFE",
     collection_id |-> SENTINEL2_COLLECTION_NAME, datetime |-> datetime,
     product_type |-> "S2MSI1C", instruments |-> {"msi"}, grid_code |-> "MGRS-22TCR",
     cloud_cover |-> cloud, coverage |-> coverage,
     bounds |-> <<-54, 45, -52, 47>>]

Sentinel2RefName == "S2B_MSIL1C_0528_N0510_R110_T22TCR"

Sentinel2Reference(cloud) == Sentinel2Item(Sentinel2RefName, Sentinel2RefTime, cloud, <<75>>)

Sentinel2SearchSlots ==
    << { Sentinel2Item("S2B_MSIL1C_0520_N0510_R110_T22TCR", Sentinel2RefTime - 8 * Day, <<28>>, <<75>>),
         Sentinel2Item("S2B_MSIL1C_0520_N0510_R110_T22TCR",
                       Sentinel2RefTime - SENTINEL2_MIN_PAIR_SEPARATION_IN_DAYS * Day, <<28>>, <<75>>),
         Sentinel2Item("S2B_MSIL1C_0520_N0510_R110_T22TCR",
                       Sentinel2RefTime - SENTINEL2_MIN_PAIR_SEPARATION_IN_DAYS * Day + 1, <<28>>, <<75>>),
         Sentinel2Item("S2B_MSIL1C_0520_N0510_R110_T22TCR", Sentinel2RefTime - 8 * Day, <<28>>, <<70>>),
         Sentinel2Item("S2B_MSIL1C_0520_N0510_R110_T22TCR", Sentinel2RefTime - 8 * Day, <<28>>, <<>>) },
       { Sentinel2Item("S2A_MSIL1C_0510_N0510_R110_T22TCR", Sentinel2RefTime - 18 * Day, <<70>>, <<99>>),
         Sentinel2Item("S2A_MSIL1C_0510_N0510_R110_T22TCR", Sentinel2RefTime - 18 * Day, <<71>>, <<99>>) },
       { Sentinel2Item("S2B_MSIL1C_0420_N0500_R110_T22TCR", Sentinel2RefTime - 38 * Day, <<10>>, <<99>>) } >>

\* ---- Sentinel-1: passes over the two frames ----
\* A pass at time t images every burst but those it misses: b01..b05 at t,
\* b06 one minute later, b07..b11 two minutes later.
BurstOffset(burst_id) ==
    IF burst_id \in {"b01", "b02", "b03", "b04", "b05"} THEN 0
    ELSE IF burst_id = "b06" THEN Minute
    ELSE 2 * Minute

BurstProduct(burst_id, label, t) ==
    [sceneName |-> "S1_" \o burst_id \o "_IW1_" \o label \o "_VV_BURST",
     startTime |-> t + BurstOffset(burst_id),
     polarization |-> "VV",
     fullBurstID |-> burst_id]

BurstOrder == <<"b01", "b02", "b03", "b04", "b05", "b06", "b07", "b08", "b09", "b10", "b11">>

PassProducts(label, t, missing) ==
    LET present(b) == b \notin missing
        ids == SelectSeq(BurstOrder, present)
    IN  [i \in DOMAIN ids |-> BurstProduct(ids[i], label, t)]

\* the bursts the reference pass may miss
MissingChoices == {{}, {"b02"}, {"b07", "b08", "b09"}}

\* the passes before the reference pass: label, time before it, and the
\* bursts it may miss
EarlierPasses ==
    << [label |-> "P1", before |-> 5 * Minute, missing |-> {{}, {"b02"}}],
       [label |-> "P2", before |-> 6 * Day, missing |-> MissingChoices],
       [label |-> "P3", before |-> SENTINEL1_MAX_PAIR_SEPARATION_IN_DAYS * Day,
        missing |-> {{}, {"b02"}}],
       [label |-> "P4", before |-> 13 * Day, missing |-> {{}}] >>

\* the reference pass starts at noon, or one or two minutes before midnight
Sentinel1RefTimes == {20 * Day + 12 * 60 * Minute, 21 * Day - Minute, 21 * Day - 2 * Minute}

\* the catalogs: the reference pass first (newest first) or last
Sentinel1Catalogs ==
    UNION {
      LET slots == [k \in DOMAIN EarlierPasses |->
                      {PassProducts(EarlierPasses[k].label, t - EarlierPasses[k].before, m)
                          : m \in EarlierPasses[k].missing}]
      IN  UNION { { Concat(<<PassProducts("P0", t, m0)>> \o earlier),
                    Concat(Reverse(<<PassProducts("P0", t, m0)>> \o earlier)) }
                  : earlier \in Choose(slots) }
      : t \in Sentinel1RefTimes, m0 \in MissingChoices }

\* the products of the reference pass: what a message may name
IsReferenceProduct(p) == Split(p.sceneName)[4] = "P0"

(***************************************************************************)
(* SpecFrames: pair search and frame assembly.  Init draws one mission's   *)
(* catalog; each action is one call on a reference the catalog holds.      *)
(***************************************************************************)
\* a scene of another land-ice tile that the search for the reference's
\* tile lists too
LandsatLeakedItem ==
    [LandsatItem("LC09_0104", LandsatRefTime - 24 * Day, <<50>>, "005") EXCEPT !.wrs_path = "001"]

Sentinel2LeakedItem ==
    [Sentinel2Item("S2A_MSIL1C_0510_N0510_R110_T13CES", Sentinel2RefTime - 18 * Day, <<28>>, <<75>>)
        EXCEPT !.grid_code = "MGRS-13CES"]

FramesCatalogs ==
    {[EmptyCatalog EXCEPT !.landsat = <<LandsatReference(<<50>>)>> \o secs]
        : secs \in Choose(LandsatSearchSlots)}
    \cup
    {[EmptyCatalog EXCEPT !.landsat = <<LandsatReference(<<50>>)>> \o secs \o <<LandsatLeakedItem>>,
                          !.leaked = {LandsatLeakedItem.id}]
        : secs \in Choose(SubSeq(LandsatSearchSlots, 1, 2))}
    \cup
    {[EmptyCatalog EXCEPT !.sentinel2 = <<Sentinel2Reference(<<28>>)>> \o secs]
        : secs \in Choose(Sentinel2SearchSlots)}
    \cup
    {[EmptyCatalog EXCEPT !.sentinel2 = <<Sentinel2Reference(<<28>>)>> \o secs \o <<Sentinel2LeakedItem>>,
                          !.leaked = {Sentinel2LeakedItem.id}]
        : secs \in Choose(SubSeq(Sentinel2SearchSlots, 1, 1))}
    \cup
    {[EmptyCatalog EXCEPT !.sentinel1 = products] : products \in Sentinel1Catalogs}

\* the bursts whose reference-pass product the calls are made on
ReferenceBursts == {"b01", "b05", "b06"}

Sentinel1References ==
    {p \in Range(catalog.sentinel1) : IsReferenceProduct(p) /\ p.fullBurstID \in ReferenceBursts}

InitFrames ==
    /\ catalog \in FramesCatalogs
    /\ jobs_table = <<>>
    /\ bucket = {}
    /\ AUTORIFT_JOB_TEMPLATE = TemplateAtImport
    /\ pairs = DataFrame({}, <<>>)
    /\ call = NoCall
    /\ now = 0

Called(op, arg, out) ==
    /\ call' = [op |-> op, arg |-> arg, out |-> out]
    /\ UNCHANGED <<catalog, jobs_table, bucket, AUTORIFT_JOB_TEMPLATE, pairs, now>>

GetFrameStacks ==
    \E reference \in Sentinel1References :
        Called("get_frame_stacks", reference, get_frame_stacks(reference))

GetSentinel1Pairs ==
    \E reference \in Sentinel1References :
        Called("get_sentinel1_pairs_for_reference_scene", reference,
               get_sentinel1_pairs_for_reference_scene(reference))

GetLandsatPairs ==
    \E reference \in {r \in Range(catalog.landsat) : r.id = "LC08_0128"} :
        Called("get_landsat_pairs_for_reference_scene", reference,
               Return(get_landsat_pairs_for_reference_scene(reference)))

GetSentinel2Pairs ==
    \E reference \in {r \in Range(catalog.sentinel2) : r.id = Sentinel2RefName} :
        Called("get_sentinel2_pairs_for_reference_scene", reference,
               get_sentinel2_pairs_for_reference_scene(reference))

NextFrames == GetFrameStacks \/ GetSentinel1Pairs \/ GetLandsatPairs \/ GetSentinel2Pairs

SpecFrames == InitFrames /\ [][NextFrames]_vars

(***************************************************************************)
(* SpecQualify: the qualification predicates and point_to_region as pure  *)
(* functions; each action draws its input and applies one of them.         *)
(***************************************************************************)
MaxFrameRows == 5

\* day-groups: rows with a burst id of frame 1 or the foreign b07
DayGroupIds == {"b01", "b02", "b03", "b04", "b05", "b07"}

InitQualify ==
    /\ catalog = EmptyCatalog
    /\ jobs_table = <<>>
    /\ bucket = {}
    /\ AUTORIFT_JOB_TEMPLATE = TemplateAtImport
    /\ pairs = DataFrame({}, <<>>)
    /\ call = NoCall
    /\ now = 0

\* one application to one drawn day-group
FrameQualifies ==
    /\ call = NoCall
    /\ \E ids \in SeqsUpTo(DayGroupIds, MaxFrameRows) :
          LET day_group == [i \in DOMAIN ids |-> [fullBurstID |-> ids[i]]]
          IN  Called("frame_qualifies_for_sentinel1_processing",
                     [frame |-> day_group, frame_id |-> 1],
                     Return(frame_qualifies_for_sentinel1_processing(day_group, 1)))

\* the items the Landsat predicate is applied to: one field of a qualifying
\* item varies at a time over the values next to the ones the code tests
QualifyLandsatClouds == {<<>>, <<-1>>, <<0>>, <<59>>, <<60>>, <<61>>}

QualifyLandsatItems ==
    LET item == LandsatItem("LC08_0128", LandsatRefTime, <<50>>, "041")
    IN  {[item EXCEPT !.collection_id = collection_id, !.instruments = instruments,
                      !.category = category, !.wrs_row = wrs_row,
                      !.cloud_cover_land = cloud]
            : collection_id \in {LANDSAT_COLLECTION_NAME, "landsat-c2l2-sr"},
              instruments \in {{"OLI", "TIRS"}, {"OLI"}, {"TIRS"}, {"ETM"}},
              category \in {"T1", "T2", "RT"},
              wrs_row \in {"041", "042"},
              cloud \in QualifyLandsatClouds}

\* max_cloud_cover as the caller passes it, or <<>> for the default
QualifyLandsatThresholds == {<<>>, <<0>>, <<59>>, <<61>>}

\* one application to one drawn item
QualifiesLandsat ==
    /\ call = NoCall
    /\ \E item \in QualifyLandsatItems, max_cloud_cover \in QualifyLandsatThresholds :
          LET threshold == IF max_cloud_cover = <<>> THEN LANDSAT_MAX_CLOUD_COVER_PERCENT
                           ELSE max_cloud_cover[1]
          IN  Called("qualifies_for_landsat_processing",
                     [item |-> item, max_cloud_cover |-> max_cloud_cover],
                     Return(qualifies_for_landsat_processing(item, threshold)))

\* the items the Sentinel-2 predicate is applied to
QualifySentinel2Clouds == {<<>>, <<-1>>, <<0>>, <<69>>, <<70>>, <<71>>}

QualifySentinel2Coverages == {<<>>, <<69>>, <<70>>, <<71>>}

QualifySentinel2Items ==
    {[Sentinel2Item(scene, Sentinel2RefTime, cloud, coverage)
         EXCEPT !.collection_id = collection_id, !.product_type = product_type,
                !.instruments = instruments, !.grid_code = grid_code]
        : scene \in {Sentinel2RefName, "S2B_MSIL1C_0528_N0500_R110_T22TCR"},
          collection_id \in {SENTINEL2_COLLECTION_NAME, "sentinel-2-l2a"},
          product_type \in {"S2MSI1C", "S2MSI2A"},
          instruments \in {{"msi"}, {"oli"}},
          grid_code \in {"MGRS-22TCR", "MGRS-22TCQ"},
          cloud \in QualifySentinel2Clouds,
          coverage \in QualifySentinel2Coverages}

\* relative_orbit as the caller passes it (None: no orbit asked for)
QualifySentinel2Orbits == {None, "R110", "R111"}

QualifySentinel2Thresholds == {<<>>, <<0>>, <<69>>, <<71>>}

\* one application to one drawn item
QualifiesSentinel2 ==
    /\ call = NoCall
    /\ \E item \in QualifySentinel2Items, relative_orbit \in QualifySentinel2Orbits,
          max_cloud_cover \in QualifySentinel2Thresholds :
          LET threshold == IF max_cloud_cover = <<>> THEN SENTINEL2_MAX_CLOUD_COVER_PERCENT
                           ELSE max_cloud_cover[1]
          IN  Called("qualifies_for_sentinel2_processing",
                     [item |-> item, relative_orbit |-> relative_orbit,
                      max_cloud_cover |-> max_cloud_cover],
                     qualifies_for_sentinel2_processing(item, relative_orbit, threshold))

\* the burst products the Sentinel-1 predicate is applied to
QualifyPolarizations == {"VV", "HH", "HV", "VH", "VV+VH"}

QualifySentinel1Products ==
    {[BurstProduct(burst_id, "P0", 20 * Day) EXCEPT !.polarization = polarization]
        : burst_id \in BurstIds, polarization \in QualifyPolarizations}

\* one application to one drawn product
ProductQualifiesSentinel1 ==
    /\ call = NoCall
    /\ \E product \in QualifySentinel1Products :
          Called("product_qualifies_for_sentinel1_processing", product,
                 Return(product_qualifies_for_sentinel1_processing(product)))

\* the coordinates the tiler is applied to: every whole degree, and -0.0
Latitudes == {Float(n) : n \in -90..90} \cup {NegativeZero}

Longitudes == {Float(n) : n \in -180..180} \cup {NegativeZero}

\* one application to one drawn point
PointToRegion ==
    /\ call = NoCall
    /\ \E lat \in Latitudes, lon \in Longitudes :
          Called("point_to_region", [lat |-> lat, lon |-> lon],
                 Return(point_to_region(lat, lon)))

\* the box corners drawn for regions_from_bounds
BoxLatitudes == {Float(n) : n \in {-90, -63, -54, -10, -5, -1, 0, 5, 85, 90}} \cup {NegativeZero}

BoxLongitudes == {Float(n) : n \in {-180, -128, -109, -10, -1, 0, 5, 175, 180}} \cup {NegativeZero}

\* one application to one drawn box, min <= max on both axes
RegionsFromBounds ==
    /\ call = NoCall
    /\ \E min_lat \in BoxLatitudes, max_lat \in BoxLatitudes,
          min_lon \in BoxLongitudes, max_lon \in BoxLongitudes :
          /\ Value(min_lat) <= Value(max_lat)
          /\ Value(min_lon) <= Value(max_lon)
          /\ Called("regions_from_bounds",
                    [min_lon |-> min_lon, min_lat |-> min_lat,
                     max_lon |-> max_lon, max_lat |-> max_lat],
                    Return(regions_from_bounds(min_lon, min_lat, max_lon, max_lat)))

NextQualify ==
    \/ FrameQualifies
    \/ QualifiesLandsat
    \/ QualifiesSentinel2
    \/ ProductQualifiesSentinel1
    \/ PointToRegion
    \/ RegionsFromBounds

SpecQualify == InitQualify /\ [][NextQualify]_vars

(***************************************************************************)
(* SpecDedup: the two dedup functions on the tables the Landsat and        *)
(* Sentinel-2 pair searches produce, against a job store and a bucket that *)
(* stay fixed.  Each action applies one function to the current table and  *)
(* keeps what it returns, so a function is also applied to its own output. *)
(***************************************************************************)
MaxJobs == 2

HyP3Job(status_code, user_id, name, request_time, reference, secondary, granules) ==
    [user_id |-> user_id, status_code |-> status_code, request_time |-> request_time,
     name |-> name, job_type |-> "AUTORIFT",
     job_parameters |-> [reference |-> reference, secondary |-> secondary,
                         publish_bucket |-> PUBLISH_BUCKET, granules |-> granules],
     origin |-> None]

\* jobs about the pairs of the Landsat reference, and one about a pair of
\* the Sentinel-2 reference
DedupJobs ==
    LET ref == "LC08_0128"
        t0  == format_time(LandsatRefTime)
        me  == EARTHDATA_USERNAME
    IN  { HyP3Job("PENDING", me, ref, t0, <<ref>>, <<"LC09_0120">>, <<>>),
          HyP3Job("RUNNING", me, ref, t0 + Day, <<ref>>, <<"LC09_0120">>, <<>>),
          HyP3Job("SUCCEEDED", me, ref, t0 + Day, <<ref>>, <<"LC09_0120">>, <<>>),
          HyP3Job("PENDING", "someone", ref, t0 + Day, <<ref>>, <<"LC09_0120">>, <<>>),
          HyP3Job("PENDING", me, None, t0 + Day, <<ref>>, <<"LC09_0120">>, <<>>),
          HyP3Job("PENDING", me, ref, t0 - Second, <<ref>>, <<"LC09_0120">>, <<>>),
          HyP3Job("PENDING", me, ref, t0 + Day, <<>>, <<>>, <<ref, "LC09_0120">>),
          HyP3Job("PENDING", me, ref, t0 + Day, <<ref>>, <<"LC08_0112">>, <<>>),
          HyP3Job("RUNNING", me, ref, t0, <<>>, <<>>, <<ref, "LC08_0112">>),
          HyP3Job("PENDING", me, Sentinel2RefName, format_time(Sentinel2RefTime),
                  <<Sentinel2RefName>>, <<"S2B_MSIL1C_0520_N0510_R110_T22TCR">>, <<>>) }

\* a product key as hyp3-autorift writes it: earliest scene first
ProductKey(prefix, region, first, second) ==
    prefix \o "/" \o region \o "/" \o first \o "_X_" \o second \o "_G0120V02_P097"

DedupKeys ==
    { ProductKey(landsat_prefix, "N60W050", "LC08_0112", "LC08_0128") \o ".nc",
      ProductKey(landsat_prefix, "N60W050", "LC08_0128", "LC09_0120") \o ".png",
      ProductKey(landsat_prefix, "N60W050", TupleRepr(<<"LC08_0128">>),
                 TupleRepr(<<"LC09_0120">>)) \o ".nc",
      ProductKey(s2_prefix, "N40W050", "S2B_MSIL1C_0520_N0510_R110_T22TCR",
                 Sentinel2RefName) \o ".nc" }

\* the reference and, in either order, up to two secondaries that qualify
DedupCatalogs ==
    LET l1 == LandsatItem("LC09_0120", LandsatRefTime - 8 * Day, <<50>>, "041")
        l2 == LandsatItem("LC08_0112", LandsatRefTime - 16 * Day, <<50>>, "041")
        s1 == Sentinel2Item("S2B_MSIL1C_0520_N0510_R110_T22TCR", Sentinel2RefTime - 8 * Day,
                            <<28>>, <<75>>)
        s2 == Sentinel2Item("S2A_MSIL1C_0510_N0510_R110_T22TCR", Sentinel2RefTime - 18 * Day,
                            <<28>>, <<75>>)
    IN  { [EmptyCatalog EXCEPT !.landsat = <<LandsatReference(<<50>>)>> \o c]
            : c \in {<<>>, <<l1>>, <<l2>>, <<l1, l2>>, <<l2, l1>>} }
        \cup
        { [EmptyCatalog EXCEPT !.sentinel2 = <<Sentinel2Reference(<<28>>)>> \o c,
                               !.google = {Sentinel2RefName}]
            : c \in {<<>>, <<s1>>, <<s1, s2>>} }

\* the table the pair search of the catalog's mission returns
FoundPairs(c) ==
    IF c.landsat # <<>> THEN "landsat" ELSE "sentinel2"

\* every bucket with at most one job in the store, and the empty and the
\* full bucket with more
InitDedup ==
    /\ catalog \in DedupCatalogs
    /\ pairs = IF FoundPairs(catalog) = "landsat"
               THEN get_landsat_pairs_for_reference_scene(catalog.landsat[1])
               ELSE get_sentinel2_pairs_for_reference_scene(catalog.sentinel2[1]).ret
    /\ jobs_table \in SeqsUpTo(DedupJobs, MaxJobs)
    /\ bucket \in IF Len(jobs_table) <= 1 THEN SUBSET DedupKeys ELSE {{}, DedupKeys}
    /\ AUTORIFT_JOB_TEMPLATE = TemplateAtImport
    /\ call = NoCall
    /\ now = 0

\* apply a dedup function to the current table; the table it returns, if it
\* returns, is the current table from then on
Applied(op, out) ==
    /\ call' = [op |-> op, arg |-> pairs, out |-> out]
    /\ pairs' = IF out.raised = None THEN out.ret ELSE pairs
    /\ UNCHANGED <<catalog, jobs_table, bucket, AUTORIFT_JOB_TEMPLATE, now>>

DedupHyp3 ==
    \E out \in {deduplicate_hyp3_pairs(pairs)} : Applied("deduplicate_hyp3_pairs", out)

DedupS3 ==
    \E out \in {deduplicate_s3_pairs(pairs)} : Applied("deduplicate_s3_pairs", out)

NextDedup == DedupHyp3 \/ DedupS3

SpecDedup == InitDedup /\ [][NextDedup]_vars

(***************************************************************************)
(* Spec: the pipeline.  Messages name the reference scenes of the catalog; *)
(* each invocation of process_scene runs to its end against the job store  *)
(* and the bucket as they are, and the jobs it submits join the job store. *)
(* HyP3 starts and finishes jobs in between.                               *)
(***************************************************************************)
MaxInvocations == 2

\* the clock of the nth invocation: after every acquisition
InvocationTime(n) == 700 * Day + n * Minute

PipelineCatalogs ==
    LET a == { LandsatItem("LC09_0120", LandsatRefTime - 8 * Day, <<50>>, "041"),
               LandsatItem("LC09_0120", LandsatRefTime - 8 * Day, <<61>>, "041") }
        b == { LandsatItem("LC08_0112", LandsatRefTime - 16 * Day, <<60>>, "041") }
        c == { LandsatItem("LC09_0104", LandsatRefTime - 24 * Day, <<50>>, "041"),
               LandsatItem("LC09_0104", LandsatRefTime - 24 * Day, <<>>, "041") }
        s1 == Sentinel2Item("S2B_MSIL1C_0520_N0510_R110_T22TCR", Sentinel2RefTime - 8 * Day,
                            <<28>>, <<75>>)
        s2 == Sentinel2Item("S2A_MSIL1C_0510_N0510_R110_T22TCR", Sentinel2RefTime - 18 * Day,
                            <<71>>, <<99>>)
        t  == 20 * Day + 12 * 60 * Minute
    IN  { [EmptyCatalog EXCEPT !.landsat = <<LandsatReference(<<50>>)>> \o secs]
            : secs \in Choose(<<a, b, c>>) }
        \cup
        { [EmptyCatalog EXCEPT !.landsat = <<LandsatReference(<<61>>)>>] }
        \cup
        { [EmptyCatalog EXCEPT !.sentinel2 = <<Sentinel2Reference(<<28>>)>> \o secs,
                               !.google = g]
            : secs \in {<<>>, <<s2>>, <<s1, s2>>}, g \in {{Sentinel2RefName}} }
        \cup
        { [EmptyCatalog EXCEPT !.sentinel2 = <<Sentinel2Reference(<<28>>), s1>>] }
        \cup
        { [EmptyCatalog EXCEPT !.sentinel1 =
               Concat(<<PassProducts("P0", t, m), PassProducts("P2", t - 6 * Day, {})>>)]
            : m \in {{}, {"b02"}} }

\* jobs in the store at the start: for a pair of the Landsat reference,
\* named after it or, as submit_pairs_for_processing sends them, not named
PipelineJobs ==
    LET ref == "LC08_0128"
        t   == format_time(LandsatRefTime) + Day
        me  == EARTHDATA_USERNAME
    IN  { HyP3Job("PENDING", me, ref, t, <<ref>>, <<"LC08_0112">>, <<>>),
          HyP3Job("PENDING", me, None, t, <<ref>>, <<"LC08_0112">>, <<>>),
          HyP3Job("SUCCEEDED", me, ref, t, <<ref>>, <<"LC09_0104">>, <<>>),
          HyP3Job("RUNNING", me, ref, t, <<>>, <<>>, <<ref, "LC09_0104">>) }

\* buckets with products as hyp3-autorift names them
PipelineBuckets ==
    { {},
      {ProductKey(landsat_prefix, "N60W050", "LC08_0112", "LC08_0128") \o ".nc"},
      {ProductKey(s2_prefix, "N40W050", "S2B_MSIL1C_0520_N0510_R110_T22TCR",
                  Sentinel2RefName) \o ".nc"} }

\* the scenes a message may name: the references of the catalog
Scenes ==
    {i.id : i \in {x \in Range(catalog.landsat) : x.id = "LC08_0128"}}
    \cup {i.id : i \in {x \in Range(catalog.sentinel2) : x.id = Sentinel2RefName}}
    \cup {p.sceneName : p \in {x \in Range(catalog.sentinel1) :
                                  IsReferenceProduct(x) /\ x.fullBurstID \in {"b01", "b05"}}}

Init ==
    /\ catalog \in PipelineCatalogs
    /\ jobs_table \in SeqsUpTo(PipelineJobs, MaxJobs)
    /\ bucket \in PipelineBuckets
    /\ AUTORIFT_JOB_TEMPLATE = TemplateAtImport
    /\ pairs = DataFrame({}, <<>>)
    /\ call = NoCall
    /\ now = 0

\* lambda_handler's call for one message, or the command line's
ProcessScene ==
    /\ now < MaxInvocations
    /\ \E scene \in Scenes, submit \in BOOLEAN :
          \E out \in {process_scene(scene, submit, AUTORIFT_JOB_TEMPLATE, InvocationTime(now))} :
          \E submitted \in {[i \in DOMAIN out.ret |-> [out.ret[i] EXCEPT !.origin = scene]]} :
              /\ call' = [op |-> "process_scene",
                          arg |-> [scene |-> scene, submit |-> submit],
                          out |-> [out EXCEPT !.ret = submitted]]
              /\ jobs_table' = jobs_table \o submitted
              /\ AUTORIFT_JOB_TEMPLATE' = out.template
              /\ now' = now + 1
              /\ UNCHANGED <<catalog, bucket, pairs>>

\* HyP3 starts the jobs that wait
JobsStart ==
    /\ \E i \in DOMAIN jobs_table : jobs_table[i].status_code = "PENDING"
    /\ jobs_table' = [i \in DOMAIN jobs_table |->
                        IF jobs_table[i].status_code = "PENDING"
                        THEN [jobs_table[i] EXCEPT !.status_code = "RUNNING"]
                        ELSE jobs_table[i]]
    /\ UNCHANGED <<catalog, bucket, AUTORIFT_JOB_TEMPLATE, pairs, call, now>>

\* HyP3 finishes the jobs that run
JobsFinish ==
    /\ \E i \in DOMAIN jobs_table : jobs_table[i].status_code = "RUNNING"
    /\ jobs_table' = [i \in DOMAIN jobs_table |->
                        IF jobs_table[i].status_code = "RUNNING"
                        THEN [jobs_table[i] EXCEPT !.status_code = "SUCCEEDED"]
                        ELSE jobs_table[i]]
    /\ UNCHANGED <<catalog, bucket, AUTORIFT_JOB_TEMPLATE, pairs, call, now>>

Next == ProcessScene \/ JobsStart \/ JobsFinish

Spec == Init /\ [][Next]_vars

(***************************************************************************)
(* SpecStages: one invocation of process_scene against every job store and *)
(* bucket, those with keys as get_key looks for them included.             *)
(***************************************************************************)
InitStages ==
    /\ catalog \in PipelineCatalogs
    /\ jobs_table \in SeqsUpTo(PipelineJobs, MaxJobs)
    /\ bucket \in PipelineBuckets \cup {DedupKeys}
    /\ AUTORIFT_JOB_TEMPLATE = TemplateAtImport
    /\ pairs = DataFrame({}, <<>>)
    /\ call = NoCall
    /\ now = 0

ProcessSceneOnce == call = NoCall /\ ProcessScene

NextStages == ProcessSceneOnce

SpecStages == InitStages /\ [][NextStages]_vars

(***************************************************************************)
(* Claims on pair search and frame assembly (SpecFrames, SpecQualify).     *)
(***************************************************************************)
PairSearchOps ==
    {"get_landsat_pairs_for_reference_scene", "get_sentinel2_pairs_for_reference_scene",
     "get_sentinel1_pairs_for_reference_scene"}

\* the acquisition times the catalog holds for a scene name
AcquisitionTimes(name) ==
    {i.datetime : i \in {x \in Range(catalog.landsat) : x.id = name}}
    \cup {i.datetime : i \in {x \in Range(catalog.sentinel2) : x.product_uri = name \o ".SAFE"}}
    \cup {p.startTime : p \in {x \in Range(catalog.sentinel1) : x.sceneName = name}}

\* the window a secondary of the mission must lie in, before the reference
SecondaryWindowHolds(op, reference_acquisition, t) ==
    IF op = "get_landsat_pairs_for_reference_scene"
    THEN /\ reference_acquisition - 544 * Day <= t
         /\ t <= reference_acquisition - Second
    ELSE IF op = "get_sentinel2_pairs_for_reference_scene"
    THEN /\ reference_acquisition - 544 * Day <= t
         /\ t <= reference_acquisition - 5 * Day
    ELSE TRUE

\* C7: in every pair a pair search emits, reference_acquisition is strictly
\* later than the acquisition time of every scene of the secondary; a
\* Landsat secondary lies in [ref - 544 d, ref - 1 s], a Sentinel-2 one in
\* [ref - 544 d, ref - 5 d], and every scene of a Sentinel-1 secondary
\* day-group starts before the reference_acquisition of the reference group.
C7_ReferenceLaterThanSecondaries ==
    (call.op \in PairSearchOps /\ call.out.raised = None) =>
        \A row \in Range(call.out.ret.rows) :
            \A name \in Range(row.secondary) :
                /\ AcquisitionTimes(name) # {}
                /\ \A t \in AcquisitionTimes(name) :
                      /\ t < row.reference_acquisition
                      /\ SecondaryWindowHolds(call.op, row.reference_acquisition, t)

\* a Landsat search that kept a scene exactly one second before the
\* reference and one exactly 544 days before it
C7_Witness ==
    /\ call.op = "get_landsat_pairs_for_reference_scene"
    /\ call.out.raised = None
    /\ \E r1, r2 \in Range(call.out.ret.rows) :
          /\ r1.datetime = call.arg.datetime - Second
          /\ r2.datetime = call.arg.datetime - 544 * Day

\* the member burst ids of the frames the reference burst is in
MemberBursts(reference) ==
    UNION {Range(OPERA_FRAMES_TO_BURST_IDS[f])
             : f \in Range(BURST_IDS_TO_OPERA_FRAMES[reference.fullBurstID])}

\* what the search for a member burst of the reference's frames returns
MemberStack(reference, burst_id) ==
    asf_search(burst_id,
               reference.startTime - (12 * Day + 3 * Minute),
               reference.startTime + 3 * Minute,
               Split(reference.sceneName)[5])

FrameOps == {"get_frame_stacks", "get_sentinel1_pairs_for_reference_scene"}

\* C8: get_frame_stacks, and with it get_sentinel1_pairs_for_reference_scene,
\* raises (so no pair is emitted for any frame) whenever the search for some
\* member burst id of a frame of the reference burst returns no result or
\* fewer than two.
C8_IncompleteStackRaises ==
    (/\ call.op \in FrameOps
     /\ \E b \in MemberBursts(call.arg) : Len(MemberStack(call.arg, b)) < 2)
    => (call.out.raised # None /\ StartsWith(call.out.raised, "ValueError"))

\* every member stack has its reference, one has nothing else, and the call
\* for the pairs raised for the missing secondary
C8_Witness ==
    /\ call.op = "get_sentinel1_pairs_for_reference_scene"
    /\ \A b \in MemberBursts(call.arg) : Len(MemberStack(call.arg, b)) >= 1
    /\ \E b \in MemberBursts(call.arg) :
          /\ Len(MemberStack(call.arg, b)) = 1
          /\ call.out.raised = "ValueError: No secondary " \o b

\* a start time within the tolerance of the reference start time, as the
\* code bounds it: later than ref - 3 min, and (by the search) not later
\* than ref + 3 min
WithinTolerance(ref_date, t) == ref_date - 3 * Minute < t /\ t <= ref_date + 3 * Minute

NoResultWithinTolerance(reference, burst_id) ==
    \A p \in Range(MemberStack(reference, burst_id)) :
        ~WithinTolerance(reference.startTime, p.startTime)

\* a member burst with no result within the tolerance makes the call raise
MissingReferenceRaises ==
    (/\ call.op = "get_frame_stacks"
     /\ \E b \in MemberBursts(call.arg) : NoResultWithinTolerance(call.arg, b))
    => call.out.raised # None

\* the call raises for a missing reference of a burst only if no result of
\* that burst's stack is within the tolerance
NoReferenceOnlyIfMissing ==
    call.op = "get_frame_stacks" =>
        \A b \in MemberBursts(call.arg) :
            call.out.raised = "ValueError: No reference " \o b
                => NoResultWithinTolerance(call.arg, b)

\* C9 as claimed: get_frame_stacks raises if some member burst has no result
\* within 3 minutes of the reference start, and does not raise for a missing
\* reference when a result of the stack is within it, whatever the order in
\* which the search returns the stack.
C9_AsClaimed == MissingReferenceRaises /\ NoReferenceOnlyIfMissing

\* the catalog lists the products of each burst newest first
NewestFirst ==
    \A i, j \in DOMAIN catalog.sentinel1 :
        (i < j /\ catalog.sentinel1[i].fullBurstID = catalog.sentinel1[j].fullBurstID)
            => catalog.sentinel1[i].startTime >= catalog.sentinel1[j].startTime

\* C9 amended: get_frame_stacks raises if some member burst has no result
\* within 3 minutes of the reference start; when the search returns each
\* stack newest first it does not raise for a missing reference of a burst
\* whose stack has a result within the tolerance.
C9_NewestFirst == MissingReferenceRaises /\ (NewestFirst => NoReferenceOnlyIfMissing)

\* newest first, the reference pass lacks b02 and an earlier pass has it
C9_Witness ==
    /\ call.op = "get_frame_stacks"
    /\ NewestFirst
    /\ Len(MemberStack(call.arg, "b02")) >= 2
    /\ call.out.raised = "ValueError: No reference b02"

\* C10: frame_qualifies_for_sentinel1_processing is true exactly when the
\* set of the day-group's burst ids is a subset of the frame's member burst
\* ids and has at least 5 elements.
C10_QuorumOfDistinctBursts ==
    call.op = "frame_qualifies_for_sentinel1_processing" =>
        LET ids == {call.arg.frame[i].fullBurstID : i \in DOMAIN call.arg.frame}
        IN  call.out.ret =
                (/\ ids \subseteq Range(OPERA_FRAMES_TO_BURST_IDS[call.arg.frame_id])
                 /\ Cardinality(ids) >= 5)

(***************************************************************************)
(* Claims on the dedup functions (SpecDedup).                              *)
(***************************************************************************)
\* the jobs in the store, on whatever page, that are PENDING or RUNNING,
\* the user's, named as the table's first row and requested at or after since
InFlight(df, since) ==
    {j \in Range(jobs_table) :
        /\ j.status_code \in {"PENDING", "RUNNING"}
        /\ j.user_id = EARTHDATA_USERNAME
        /\ j.name = df.rows[1].job_name
        /\ j.request_time >= since}

\* out holds, unchanged and in order, exactly the rows of df whose key is
\* not the key of a job in flight since
RemovesInFlight(df, out, since) ==
    LET keys == {get_reference_secondary_from_Job(j) : j \in InFlight(df, since)}
        keep(i) == <<df.rows[i].reference, df.rows[i].secondary>> \notin keys
        pos == Positions(df.rows, keep)
    IN  out.rows = [i \in 1..Len(pos) |-> df.rows[pos[i]]]

Published(df, row) ==
    LET a == row.reference[1]
        b == row.secondary[1]
        first  == IF StrLess(b, a) THEN b ELSE a
        second == IF StrLess(b, a) THEN a ELSE b
        prefix == IF StartsWith(a, "S2") THEN s2_prefix ELSE landsat_prefix
        bounds == total_bounds(df)
    IN  \E region \in regions_from_bounds(Float(bounds[1]), Float(bounds[2]),
                                          Float(bounds[3]), Float(bounds[4])) :
            \E k \in bucket :
                /\ StartsWith(k, prefix \o "/" \o region \o "/" \o first \o "_X_" \o second)
                /\ EndsWith(k, ".nc")

\* C3: deduplicate_s3_pairs drops a pair exactly when, under a region prefix
\* of the pairs' bounding box, the bucket holds a key that starts with
\* {prefix}/{a}_X_{b} and ends in .nc, a and b being the two scene ids in
\* alphabetical order.
C3_DropsPublishedPairs ==
    (call.op = "deduplicate_s3_pairs" /\ call.out.raised = None) =>
        \A i \in DOMAIN call.arg.rows :
            (call.arg.index[i] \notin Range(call.out.ret.index))
                <=> Published(call.arg, call.arg.rows[i])

DedupOps == {"deduplicate_hyp3_pairs", "deduplicate_s3_pairs"}

\* C5: a dedup function applied to the table it has just returned returns
\* that table unchanged and does not raise.
C5_DedupIdempotent ==
    [][(/\ call.op \in DedupOps
        /\ call.out.raised = None
        /\ pairs = call.out.ret
        /\ call'.op = call.op
        /\ call'.arg = pairs)
       => (call'.out.raised = None /\ call'.out.ret = pairs)]_vars

(***************************************************************************)
(* Claims on the pipeline (Spec).                                          *)
(***************************************************************************)
\* the step is an invocation of process_scene for scene with submission on
Invokes(scene) ==
    /\ now' = now + 1
    /\ call'.op = "process_scene"
    /\ call'.arg = [scene |-> scene, submit |-> TRUE]

\* the pair a job is for
JobPair(job) == get_reference_secondary_from_Job(job)

\* a job of the user for the pair, requested after the reference was
\* acquired, is in the store with one of the status codes
HasJob(reference, secondary, codes) ==
    \E j \in Range(jobs_table) :
        /\ j.status_code \in codes
        /\ j.user_id = EARTHDATA_USERNAME
        /\ j.request_time >= reference.datetime
        /\ JobPair(j) = << <<reference.id>>, <<secondary.id>> >>

ExceedsCloudCover(item) ==
    item.cloud_cover_land # <<>> /\ item.cloud_cover_land[1] > 60

\* the catalog search for the reference returns three secondaries: one
\* over the cloud cover limit, one the secondary of a PENDING job for the
\* reference, and the one named remaining with no job in flight and no
\* product published
OnePairRemains(reference, remaining) ==
    LET results == landsat_search(reference.collection_id, reference.wrs_path,
                                  reference.wrs_row, reference.off_nadir > 0,
                                  reference.datetime - 544 * Day, reference.datetime - Second)
        found == get_landsat_pairs_for_reference_scene(reference)
    IN  /\ qualifies_for_landsat_processing(reference, 60)
        /\ Len(results) = 3
        /\ Len(found.rows) = 2
        /\ \E i, j, k \in DOMAIN results :
              /\ {i, j, k} = DOMAIN results
              /\ ExceedsCloudCover(results[i])
              /\ HasJob(reference, results[j], {"PENDING"})
              /\ results[k].id = remaining
              /\ ~HasJob(reference, results[k], {"PENDING", "RUNNING"})
              /\ \A r \in Range(found.rows) :
                    r.secondary = <<remaining>> => ~Published(found, r)

\* C1: process_scene for a qualifying Landsat reference whose search returns
\* three secondaries, one failing the cloud cover check and one the
\* secondary of an in-flight PENDING job for the reference, with no product
\* published for the third, submits exactly one job, for the remaining pair.
C1_SubmitsTheRemainingPair ==
    [][\A reference \in Range(catalog.landsat) :
         \A remaining \in {"LC09_0120", "LC08_0112", "LC09_0104"} :
           (Invokes(reference.id) /\ OnePairRemains(reference, remaining))
           => /\ call'.out.raised = None
              /\ Len(call'.out.ret) = 1
              /\ JobPair(call'.out.ret[1]) = << <<reference.id>>, <<remaining>> >>]_vars

\* C4: an invocation for a scene while every job an earlier invocation for
\* the scene submitted is still PENDING or RUNNING submits no job for a pair
\* one of those jobs is for.
C4_RetrySubmitsNoDuplicate ==
    [][\A scene \in Scenes :
         LET earlier == {j \in Range(jobs_table) : j.origin = scene}
         IN  (/\ Invokes(scene)
              /\ \A j \in earlier : j.status_code \in {"PENDING", "RUNNING"})
             => \A k \in Range(call'.out.ret) :
                    JobPair(k) \notin {JobPair(j) : j \in earlier}]_vars

\* C6: when the pair search of a qualifying Landsat or Sentinel-2 reference
\* finds no secondary that qualifies, process_scene with submission on runs
\* neither dedup stage, does not raise and returns an empty batch.
C6_NoPairsNoJobs ==
    (/\ call.op = "process_scene"
     /\ call.arg.submit
     /\ ~StartsWith(call.arg.scene, "S1")
     /\ call.out.found = 0)
    => /\ call.out.raised = None
       /\ call.out.ret = <<>>
       /\ call.out.stages = {"submit"}


(***************************************************************************)
(* Sentinel-1 pair emission (sentinel1.py:139-161)                         *)
(***************************************************************************)
\* the rows of the assembled stacks that belong to a frame, and their days
FrameProducts(reference, frame) ==
    LET offrame(r) == r.frame_id = frame
    IN  SelectSeq(get_frame_stacks(reference).ret, offrame)

FrameDays(reference, frame) ==
    {DayOf(p.startTime) : p \in Range(FrameProducts(reference, frame))}

\* the products of a frame acquired on a day, and their scene names
DayGroup(reference, frame, day) ==
    LET onday(r) == DayOf(r.startTime) = day
    IN  SelectSeq(FrameProducts(reference, frame), onday)

SceneNames(products) == [i \in DOMAIN products |-> products[i].sceneName]

\* the emitted pairs that carry a frame's job name
PairsOfFrame(rows, frame) ==
    LET named(r) == StartsWith(r.job_name, "OPERA_" \o IntStr(frame) \o "_")
    IN  SelectSeq(rows, named)

\* the days before the frame's most recent day whose day-group qualifies
QualifyingEarlierDays(reference, frame) ==
    {d \in Min(FrameDays(reference, frame))..(Max(FrameDays(reference, frame)) - 1) :
        frame_qualifies_for_sentinel1_processing(DayGroup(reference, frame, d), frame)}

\* the pairs emitted for one frame are as claimed
FrameEmissionAsClaimed(reference, frame, rows) ==
    LET days == FrameDays(reference, frame)
        ref_group == DayGroup(reference, frame, Max(days))
        ref_date == Min({p.startTime : p \in Range(ref_group)})
        emitted == PairsOfFrame(rows, frame)
        earlier == QualifyingEarlierDays(reference, frame)
    IN  /\ Len(emitted) = Cardinality(earlier)
        /\ \A d \in earlier :
              Cardinality({k \in DOMAIN emitted :
                  emitted[k].secondary = SceneNames(DayGroup(reference, frame, d))}) = 1
        /\ \A k \in DOMAIN emitted :
              /\ emitted[k].reference = SceneNames(ref_group)
              /\ emitted[k].job_name = opera_job_name(frame, ref_date)

EmissionAsClaimed(reference, out) ==
    /\ out.raised = None
    /\ Len(out.ret.rows) =
          Cardinality(UNION {{<<f, d>> : d \in QualifyingEarlierDays(reference, f)}
                               : f \in Range(BURST_IDS_TO_OPERA_FRAMES[reference.fullBurstID])})
    /\ \A f \in Range(BURST_IDS_TO_OPERA_FRAMES[reference.fullBurstID]) :
          FrameEmissionAsClaimed(reference, f, out.ret.rows)

\* C11: once the stacks of the reference burst's frames are assembled, for
\* each of these frames get_sentinel1_pairs_for_reference_scene takes the
\* most recent day-group as the reference group and emits exactly one pair
\* per earlier day-group that qualifies, none for a non-qualifying or empty
\* day, with reference = the scene names of the reference day-group,
\* secondary = the scene names of that day-group and
\* job_name = OPERA_{frame_id}_{reference_date}.
C11_OnePairPerQualifyingDay ==
    (/\ call.op = "get_sentinel1_pairs_for_reference_scene"
     /\ get_frame_stacks(call.arg).raised = None)
    => EmissionAsClaimed(call.arg, call.out)

\* the same on the calls that return
C11_WhenReturned ==
    (/\ call.op = "get_sentinel1_pairs_for_reference_scene"
     /\ call.out.raised = None)
    => EmissionAsClaimed(call.arg, call.out)

\* a call that returned pairs of two frames, with a day that did not qualify
C11_Returned ==
    /\ call.op = "get_sentinel1_pairs_for_reference_scene"
    /\ call.out.raised = None
    /\ Len(call.out.ret.rows) >= 2
    /\ \E f \in Range(BURST_IDS_TO_OPERA_FRAMES[call.arg.fullBurstID]) :
          /\ PairsOfFrame(call.out.ret.rows, f) # <<>>
          /\ Cardinality(QualifyingEarlierDays(call.arg, f))
                < Max(FrameDays(call.arg, f)) - Min(FrameDays(call.arg, f))


\* the days of a frame's products before its most recent day
CandidateDays(reference, frame) ==
    FrameDays(reference, frame) \ {Max(FrameDays(reference, frame))}

BurstIdsOn(reference, frame, day) ==
    {p.fullBurstID : p \in Range(DayGroup(reference, frame, day))}

\* the frame has one candidate day, holding n distinct member bursts
OneCandidateDayOf(reference, frame, n) ==
    \E d \in CandidateDays(reference, frame) :
        /\ CandidateDays(reference, frame) = {d}
        /\ BurstIdsOn(reference, frame, d) \subseteq Range(OPERA_FRAMES_TO_BURST_IDS[frame])
        /\ Cardinality(BurstIdsOn(reference, frame, d)) = n

\* the reference burst is in two frames whose stacks were assembled; one has
\* every member burst on its candidate day, the other only 4
TwoFramesOneComplete(reference, complete, partial) ==
    /\ Range(BURST_IDS_TO_OPERA_FRAMES[reference.fullBurstID]) = {complete, partial}
    /\ complete # partial
    /\ get_frame_stacks(reference).raised = None
    /\ OneCandidateDayOf(reference, complete, Len(OPERA_FRAMES_TO_BURST_IDS[complete]))
    /\ OneCandidateDayOf(reference, partial, 4)

ThresholdOf(max_cloud_cover, default) ==
    IF max_cloud_cover = <<>> THEN default ELSE max_cloud_cover[1]

\* the conditions the claim lists for a Landsat item
LandsatConditions(item, threshold) ==
    /\ item.collection_id = "landsat-c2l1"
    /\ "OLI" \in item.instruments
    /\ item.category \in {"T1", "T2"}
    /\ (item.wrs_path \o item.wrs_row) \in LANDSAT_TILES_TO_PROCESS
    /\ item.cloud_cover_land # <<>>
    /\ item.cloud_cover_land[1] >= 0
    /\ item.cloud_cover_land[1] <= threshold

\* C13: qualifies_for_landsat_processing returns true if and only if the
\* collection id is 'landsat-c2l1', 'OLI' is among the instruments, the
\* category is T1 or T2, path+row is in the land-ice tile set, and
\* landsat:cloud_cover_land is present, not negative and <= max_cloud_cover
\* (default 60: a value equal to the threshold qualifies, threshold + 1 does
\* not); a missing or -1 cloud cover disqualifies for every threshold.
C13_LandsatQualifiesIff ==
    call.op = "qualifies_for_landsat_processing"
    => /\ call.out.ret = LandsatConditions(call.arg.item, ThresholdOf(call.arg.max_cloud_cover, 60))
       /\ call.arg.item.cloud_cover_land \in {<<>>, <<-1>>} => call.out.ret = FALSE

\* an item at the default threshold qualified
C13_Witness ==
    /\ call.op = "qualifies_for_landsat_processing"
    /\ call.arg.max_cloud_cover = <<>>
    /\ call.arg.item.cloud_cover_land = <<60>>
    /\ call.out.ret = TRUE


\* the conditions the claim lists for a Sentinel-2 item
Sentinel2Conditions(item, relative_orbit, threshold) ==
    LET product_id == removesuffix_SAFE(item.product_uri)
    IN  /\ relative_orbit # None => Split(product_id)[5] = relative_orbit
        /\ item.collection_id = "sentinel-2-l1c"
        /\ "N0500" \notin Range(Split(product_id))
        /\ item.product_type = "S2MSI1C"
        /\ "msi" \in item.instruments
        /\ item.grid_code \in SENTINEL2_TILES_TO_PROCESS
        /\ item.cloud_cover # <<>>
        /\ item.cloud_cover[1] >= 0
        /\ item.cloud_cover[1] <= threshold
        /\ item.coverage # <<>>
        /\ item.coverage[1] > 70

\* C14: qualifies_for_sentinel2_processing returns true if and only if the
\* relative orbit equals the requested one when one is given, the collection
\* id matches, the product id does not carry the baseline token N0500, the
\* product type is Level-1C, 'msi' is among the instruments, the grid tile is
\* in the land-ice tile set, eo:cloud_cover is present, not negative and
\* <= max_cloud_cover (default 70), and the data coverage is strictly
\* greater than the minimum (70): coverage equal to the minimum disqualifies.
C14_Sentinel2QualifiesIff ==
    call.op = "qualifies_for_sentinel2_processing"
    => ((call.out.raised = None /\ call.out.ret = TRUE)
           <=> Sentinel2Conditions(call.arg.item, call.arg.relative_orbit,
                                   ThresholdOf(call.arg.max_cloud_cover, 70)))

\* an item one above the minimum coverage qualified, on the orbit asked for
C14_Witness ==
    /\ call.op = "qualifies_for_sentinel2_processing"
    /\ call.arg.relative_orbit = "R110"
    /\ call.arg.max_cloud_cover = <<>>
    /\ call.arg.item.cloud_cover = <<70>>
    /\ call.arg.item.coverage = <<71>>
    /\ call.out.raised = None
    /\ call.out.ret = TRUE


\* C15: product_qualifies_for_sentinel1_processing returns true if and only
\* if the product's full burst id is in the land-ice burst set and its
\* polarization is VV or HH; every cross-polarized product is disqualified.
C15_ProductQualifiesIff ==
    call.op = "product_qualifies_for_sentinel1_processing"
    => /\ call.out.ret = (/\ call.arg.fullBurstID \in SENTINEL1_BURSTS_TO_PROCESS
                          /\ (call.arg.polarization = "VV" \/ call.arg.polarization = "HH"))
       /\ call.arg.polarization \in {"HV", "VH"} => call.out.ret = FALSE

\* an HH product of a land-ice burst qualified
C15_Witness ==
    /\ call.op = "product_qualifies_for_sentinel1_processing"
    /\ call.arg.polarization = "HH"
    /\ call.arg.fullBurstID \in SENTINEL1_BURSTS_TO_PROCESS
    /\ call.out.ret = TRUE


\* the thresholds a call is compared with
HigherThresholds(threshold) == {t \in {0, 59, 60, 61, 69, 70, 71, 100} : t >= threshold}

\* C16: qualification is monotonic in the cloud cover threshold for Landsat
\* and Sentinel-2: a scene that qualifies with max_cloud_cover = t1 also
\* qualifies with every max_cloud_cover = t2 >= t1, so lowering the
\* threshold never adds a scene.
C16_MonotoneInThreshold ==
    /\ (call.op = "qualifies_for_landsat_processing" /\ call.out.ret = TRUE)
       => \A t2 \in HigherThresholds(ThresholdOf(call.arg.max_cloud_cover,
                                                 LANDSAT_MAX_CLOUD_COVER_PERCENT)) :
              qualifies_for_landsat_processing(call.arg.item, t2) = TRUE
    /\ (call.op = "qualifies_for_sentinel2_processing"
           /\ call.out.raised = None /\ call.out.ret = TRUE)
       => \A t2 \in HigherThresholds(ThresholdOf(call.arg.max_cloud_cover,
                                                 SENTINEL2_MAX_CLOUD_COVER_PERCENT)) :
              qualifies_for_sentinel2_processing(call.arg.item, call.arg.relative_orbit, t2)
                  = Return(TRUE)

\* a scene qualified at a threshold below the default one, with its cloud
\* cover at that threshold
C16_Witness ==
    /\ call.op = "qualifies_for_landsat_processing"
    /\ call.arg.max_cloud_cover = <<59>>
    /\ call.arg.item.cloud_cover_land = <<59>>
    /\ call.out.ret = TRUE


(***************************************************************************)
(* Tiles of the emitted pairs (sentinel2.py:210-244, landsat.py:98-131)    *)
(***************************************************************************)
\* the catalog items with a scene name
Sentinel2ItemsNamed(name) == {i \in Range(catalog.sentinel2) : i.product_uri = name \o ".SAFE"}

LandsatItemsNamed(name) == {i \in Range(catalog.landsat) : i.id = name}

\* C17: every pair emitted by get_sentinel2_pairs_for_reference_scene has a
\* secondary whose grid tile equals the reference's, and every pair emitted
\* by get_landsat_pairs_for_reference_scene has a secondary whose WRS path
\* and row equal the reference's, whatever items the catalog search returns
\* (items of neighbouring tiles included).
C17_SecondaryOfSameTile ==
    /\ (call.op = "get_sentinel2_pairs_for_reference_scene" /\ call.out.raised = None)
       => \A r \in Range(call.out.ret.rows) : \A i \in Sentinel2ItemsNamed(r.secondary[1]) :
              i.grid_code = call.arg.grid_code
    /\ call.op = "get_landsat_pairs_for_reference_scene"
       => \A r \in Range(call.out.ret.rows) : \A i \in LandsatItemsNamed(r.secondary[1]) :
              i.wrs_path = call.arg.wrs_path /\ i.wrs_row = call.arg.wrs_row

\* the same when the search lists no item of another tile
C17_WithoutLeak ==
    catalog.leaked = {} => C17_SecondaryOfSameTile

\* pairs were emitted from a search that listed no item of another tile
C17_PairsWithoutLeak ==
    /\ call.op \in {"get_sentinel2_pairs_for_reference_scene", "get_landsat_pairs_for_reference_scene"}
    /\ catalog.leaked = {}
    /\ call.out.raised = None
    /\ Len(call.out.ret.rows) >= 2


(***************************************************************************)
(* lambda_handler (main.py:325-368).  A JSON text is [valid, value]:       *)
(* json.loads gives the value of a valid text and raises on any other.  A  *)
(* record is [messageId, body]; the body's value is [Message], <<text>> or *)
(* <<>> without the key; the message's value is the dict                   *)
(* [landsat_product_id, name, granule_ur], each <<string>> or <<>> without *)
(* the key (granule_ur stands for 'granule-ur').                           *)
(***************************************************************************)
json_loads(text) == IF text.valid THEN Return(text.value) ELSE Raise("JSONDecodeError")

\* the match statement: the first case whose key is there and whose guard holds
product_id_from_message(message) ==
    IF message.landsat_product_id # <<>> /\ StartsWith(message.landsat_product_id[1], "L")
    THEN Return(message.landsat_product_id[1])
    ELSE IF message.name # <<>> /\ StartsWith(message.name[1], "S2")
    THEN Return(message.name[1])
    ELSE IF message.granule_ur # <<>> /\ StartsWith(message.granule_ur[1], "S1")
    THEN Return(message.granule_ur[1])
    ELSE Raise("ValueError")

\* what went on in one pass of the loop: the product id the message gave
\* (<<>>: none), what was raised, the stages process_scene ran, the jobs it
\* submitted and the template it left
Attempt(product_id, raised, stages, jobs, template) ==
    [product_id |-> product_id, raised |-> raised, stages |-> stages,
     jobs |-> jobs, template |-> template]

\* the try block of lines 360-364 for one record
try_record(record, template, time) ==
    LET body == json_loads(record.body)
        message == json_loads(body.ret.Message[1])
        product_id == product_id_from_message(message.ret)
    IN  IF body.raised # None THEN Attempt(<<>>, body.raised, {}, <<>>, template)
        ELSE IF body.ret.Message = <<>> THEN Attempt(<<>>, "KeyError", {}, <<>>, template)
        ELSE IF message.raised # None THEN Attempt(<<>>, message.raised, {}, <<>>, template)
        ELSE IF product_id.raised # None THEN Attempt(<<>>, product_id.raised, {}, <<>>, template)
        ELSE The({ Attempt(<<product_id.ret>>, out.raised,
                           out.stages, out.ret, out.template)
                   : out \in {process_scene(product_id.ret, TRUE, template, time)} })

\* a handler without the except clause
stops_the_loop_when_raised(raised) == raised

\* lines 365-367: the exception that leaves the loop, or None; the except
\* clause catches every Exception the try block raises
stops_the_loop(raised) == None

\* lines 365-367: the failures after a pass of the loop
failures_after(batch_item_failures, record, raised) ==
    IF raised # None
    THEN Append(batch_item_failures, [itemIdentifier |-> record.messageId])
    ELSE batch_item_failures

(***************************************************************************)
(* SpecHandler: lambda_handler on events of up to MaxRecords records.  The *)
(* handler's progress is in call: the event, the passes of the loop made   *)
(* so far, the failures collected and whether it has returned.             *)
(***************************************************************************)
MaxRecords == 2

\* all three missions: qualifying references with a secondary each, scenes
\* that fail qualification, and the Sentinel-2 reference in or not yet in
\* Google Cloud
HandlerCatalogs ==
    LET t == 20 * Day + 12 * 60 * Minute
    IN  { [EmptyCatalog EXCEPT
             !.landsat = << LandsatReference(<<50>>),
                            LandsatItem("LC09_0120", LandsatRefTime - 8 * Day, <<61>>, "041"),
                            LandsatItem("LC08_0112", LandsatRefTime - 16 * Day, <<60>>, "041") >>,
             !.sentinel2 = << Sentinel2Reference(<<28>>),
                              Sentinel2Item("S2B_MSIL1C_0520_N0510_R110_T22TCR",
                                            Sentinel2RefTime - 8 * Day, <<28>>, <<75>>),
                              Sentinel2Item("S2A_MSIL1C_0510_N0510_R110_T22TCR",
                                            Sentinel2RefTime - 18 * Day, <<71>>, <<99>>),
                              Sentinel2Item("S2B_MSIL1C_0420_N0500_R110_T22TCR",
                                            Sentinel2RefTime - 38 * Day, <<10>>, <<99>>) >>,
             !.google = g,
             !.sentinel1 = Concat(<<PassProducts("P0", t, {}), PassProducts("P2", t - 6 * Day, {})>>)]
          : g \in {{}, {Sentinel2RefName}} }

\* the scenes a message may name: in the catalog and qualifying, in the
\* catalog and not qualifying, and absent from the catalog
HandlerScenes ==
    { "LC08_0128", "LC09_0120", "LC08_0136",
      Sentinel2RefName, "S2A_MSIL1C_0510_N0510_R110_T22TCR", "S2B_MSIL1C_0420_N0500_R110_T22TCR",
      "S2B_MSIL1C_0601_N0510_R110_T22TCR", "S2B_MSIL1C_0601_N0500_R110_T22TCR",
      "S1_b01_IW1_P0_VV_BURST", "S1_b10_IW1_P0_VV_BURST", "S1_b01_IW1_P9_VV_BURST" }

NoKeys == [landsat_product_id |-> <<>>, name |-> <<>>, granule_ur |-> <<>>]

\* the message a mission's topic sends for a scene
MessageFor(scene) ==
    IF StartsWith(scene, "L") THEN [NoKeys EXCEPT !.landsat_product_id = <<scene>>]
    ELSE IF StartsWith(scene, "S2") THEN [NoKeys EXCEPT !.name = <<scene>>]
    ELSE [NoKeys EXCEPT !.granule_ur = <<scene>>]

JsonText(value) == [valid |-> TRUE, value |-> value]

BodyWith(message_text) == JsonText([Message |-> <<message_text>>])

\* bodies: of a scene's message, not JSON, without Message, with a Message
\* that is not JSON, with a message of no known key, and with a product id
\* under another mission's key
HandlerBodies ==
    {BodyWith(JsonText(MessageFor(scene))) : scene \in HandlerScenes}
    \cup { [valid |-> FALSE, value |-> [Message |-> <<>>]],
           JsonText([Message |-> <<>>]),
           BodyWith([valid |-> FALSE, value |-> NoKeys]),
           BodyWith(JsonText(NoKeys)),
           BodyWith(JsonText([NoKeys EXCEPT !.name = <<"LC08_0128">>])) }

HandlerEvents ==
    {[Records |-> [i \in DOMAIN bodies |-> [messageId |-> "m" \o IntStr(i), body |-> bodies[i]]]]
        : bodies \in SeqsUpTo(HandlerBodies, MaxRecords)}

InitHandler ==
    /\ catalog \in HandlerCatalogs
    /\ jobs_table = <<>>
    /\ bucket = {}
    /\ AUTORIFT_JOB_TEMPLATE = TemplateAtImport
    /\ pairs = DataFrame({}, <<>>)
    /\ call = NoCall
    /\ now = 0

Progress(attempts, batch_item_failures, returned, raised) ==
    [raised |-> raised, ret |-> [batchItemFailures |-> batch_item_failures],
     attempts |-> attempts, returned |-> returned]

\* line 358: the handler is invoked with an event; one without records
\* returns at once
Invoke ==
    /\ call = NoCall
    /\ \E event \in HandlerEvents :
          call' = [op |-> "lambda_handler", arg |-> event,
                   out |-> Progress(<<>>, <<>>, event.Records = <<>>, None)]
    /\ UNCHANGED <<catalog, jobs_table, bucket, AUTORIFT_JOB_TEMPLATE, pairs, now>>

\* lines 359-368: one pass of the loop, on the next record, and the return
\* after the last
HandleRecord ==
    /\ call.op = "lambda_handler"
    /\ ~call.out.returned
    /\ call.out.raised = None
    /\ LET record == call.arg.Records[Len(call.out.attempts) + 1]
       IN  \E attempt \in {try_record(record, AUTORIFT_JOB_TEMPLATE, InvocationTime(now))} :
           \E submitted \in {[i \in DOMAIN attempt.jobs |->
                                [attempt.jobs[i] EXCEPT !.origin = record.messageId]]} :
              /\ call' = [call EXCEPT !.out =
                            Progress(Append(call.out.attempts, [attempt EXCEPT !.jobs = submitted]),
                                     failures_after(call.out.ret.batchItemFailures, record,
                                                    attempt.raised),
                                     /\ stops_the_loop(attempt.raised) = None
                                     /\ Len(call.out.attempts) + 1 = Len(call.arg.Records),
                                     stops_the_loop(attempt.raised))]
              /\ jobs_table' = jobs_table \o submitted
              /\ AUTORIFT_JOB_TEMPLATE' = attempt.template
              /\ now' = now + 1
              /\ UNCHANGED <<catalog, bucket, pairs>>

NextHandler == Invoke \/ HandleRecord

SpecHandler == InitHandler /\ [][NextHandler]_vars


(***************************************************************************)
(* process_scene before the dedup stages (main.py:276-295)                 *)
(***************************************************************************)
\* the catalog entries of a scene, by its mission
CatalogEntries(scene) ==
    IF StartsWith(scene, "S2") THEN Sentinel2ItemsNamed(scene)
    ELSE IF StartsWith(scene, "L") THEN LandsatItemsNamed(scene)
    ELSE {p \in Range(catalog.sentinel1) : p.sceneName = scene}

\* what the mission's qualification filter gives for a catalog entry
FilterOutcome(scene, entry) ==
    IF StartsWith(scene, "S2")
    THEN qualifies_for_sentinel2_processing(entry, None, SENTINEL2_MAX_CLOUD_COVER_PERCENT)
    ELSE IF StartsWith(scene, "L")
    THEN Return(qualifies_for_landsat_processing(entry, LANDSAT_MAX_CLOUD_COVER_PERCENT))
    ELSE Return(product_qualifies_for_sentinel1_processing(entry))

FoundInCatalog(scene) == CatalogEntries(scene) # {}

PassedFilter(scene) == \E e \in CatalogEntries(scene) : FilterOutcome(scene, e) = Return(TRUE)

FailedFilter(scene) == \E e \in CatalogEntries(scene) : FilterOutcome(scene, e) = Return(FALSE)

\* the attempts of the handler that reached process_scene
ProcessSceneCalls ==
    IF call.op = "lambda_handler"
    THEN {a \in Range(call.out.attempts) : a.product_id # <<>>}
    ELSE {}

\* no query and no submission unless the scene was found and passed
NoStoreUseUnlessQualified(a) ==
    (a.stages # {} \/ a.jobs # <<>>)
        => (FoundInCatalog(a.product_id[1]) /\ PassedFilter(a.product_id[1]))

\* a scene that fails qualification gives an empty batch and no exception
DisqualifiedReturnsEmpty(a) ==
    FailedFilter(a.product_id[1]) => (a.raised = None /\ a.jobs = <<>> /\ a.stages = {})

\* a Sentinel-2 name with the reprocessing baseline
ReprocessedName(scene) == StartsWith(scene, "S2") /\ Split(scene)[4] = "N0500"

\* C18 as stated: process_scene performs no job-store query, no object-store
\* query and no submission unless the scene was found in the catalog and
\* passed its mission's filter; a scene absent from the catalog makes it
\* raise, and a scene that fails qualification makes it return an empty
\* batch without raising.
C18_AsClaimed ==
    \A a \in ProcessSceneCalls :
        /\ NoStoreUseUnlessQualified(a)
        /\ ~FoundInCatalog(a.product_id[1]) => a.raised # None
        /\ DisqualifiedReturnsEmpty(a)

\* C18, amended: the same, but a Sentinel-2 scene whose name carries the
\* baseline N0500 is disqualified by its name before the catalog is asked:
\* absent from the catalog or not, it gives an empty batch and no exception.
C18_AbsentRaisesUnlessReprocessed ==
    \A a \in ProcessSceneCalls :
        /\ NoStoreUseUnlessQualified(a)
        /\ (~FoundInCatalog(a.product_id[1]) /\ ~ReprocessedName(a.product_id[1]))
              => a.raised = "ValueError"
        /\ ReprocessedName(a.product_id[1])
              => (a.raised = None /\ a.jobs = <<>> /\ a.stages = {})
        /\ DisqualifiedReturnsEmpty(a)

\* one event with an absent scene, which raised, and a qualifying scene,
\* whose pairs went through the stores
C18_Witness ==
    /\ call.op = "lambda_handler"
    /\ call.out.returned
    /\ \E a, b \in ProcessSceneCalls :
          /\ ~FoundInCatalog(a.product_id[1]) /\ a.raised = "ValueError"
          /\ PassedFilter(b.product_id[1]) /\ "hyp3" \in b.stages /\ b.jobs # <<>>


(***************************************************************************)
(* lambda_handler's failures (main.py:346-368)                             *)
(***************************************************************************)
\* the passes of the loop that raised, and the nth of them
RaisingPasses == {k \in DOMAIN call.out.attempts : call.out.attempts[k].raised # None}

NthRaising(n) == CHOOSE k \in RaisingPasses : Cardinality({j \in RaisingPasses : j <= k}) = n

\* the product id record k's message carries, whatever its key
NamedBy(record) ==
    IF record.body.valid /\ record.body.value.Message # <<>>
       /\ record.body.value.Message[1].valid
    THEN LET message == record.body.value.Message[1].value
         IN  Range(message.landsat_product_id) \cup Range(message.name) \cup Range(message.granule_ur)
    ELSE {}

\* C19: lambda_handler attempts every record of the event in order; a record
\* whose message parsing or process_scene call raises does not stop the
\* processing of later records, and the returned batchItemFailures lists
\* exactly the messageIds of the records that raised, once each, in event
\* order (empty when every record succeeded).
C19_FailuresAreTheRaisingRecords ==
    call.op = "lambda_handler"
    => LET records == call.arg.Records
           attempts == call.out.attempts
           failures == call.out.ret.batchItemFailures
       IN  /\ call.out.raised = None
           /\ Len(attempts) <= Len(records)
           /\ call.out.returned <=> Len(attempts) = Len(records)
           /\ \A k \in DOMAIN attempts :
                 /\ Range(attempts[k].product_id) \subseteq NamedBy(records[k])
                 /\ NamedBy(records[k]) = {} => attempts[k].raised # None
                 /\ \A i \in DOMAIN attempts[k].jobs :
                       attempts[k].jobs[i].origin = records[k].messageId
           /\ Len(failures) = Cardinality(RaisingPasses)
           /\ \A n \in DOMAIN failures :
                 failures[n] = [itemIdentifier |-> records[NthRaising(n)].messageId]

\* the handler returned from an event whose first record raised and whose
\* second record had its jobs submitted
C19_Witness ==
    /\ call.op = "lambda_handler"
    /\ call.out.returned
    /\ Len(call.out.attempts) = 2
    /\ call.out.attempts[1].raised # None
    /\ call.out.attempts[2].raised = None
    /\ call.out.attempts[2].jobs # <<>>
    /\ call.out.ret.batchItemFailures = <<[itemIdentifier |-> "m1"]>>


(***************************************************************************)
(* Region tiler (main.py:58-71)                                            *)
(***************************************************************************)
\* the number a string of digits writes
NumberOf(digits, range) == CHOOSE n \in range :
    IF Len(digits) = 2 THEN Fmt02d(n) = digits ELSE Fmt03d(n) = digits

\* a label read back: hemisphere letters and bins
Decoded(label) ==
    [ns |-> SubSeq(label, 1, 1), lat |-> NumberOf(SubSeq(label, 2, 3), 0..99),
     ew |-> SubSeq(label, 4, 4), lon |-> NumberOf(SubSeq(label, 5, 7), 0..999)]

\* the bin of a magnitude: the multiple of 10 at or below it, the top of the
\* range going to the last bin
BinOf(magnitude, top) ==
    IF magnitude = top THEN top - 10
    ELSE CHOOSE b \in {10 * k : k \in 0..(top \div 10)} : b <= magnitude /\ magnitude < b + 10

\* C20: point_to_region is total on lat in [-90, 90], lon in [-180, 180]:
\* every point maps to one label {N|S}{lat:2 digits}{E|W}{lon:3 digits}
\* whose latitude bin is |lat| cut down to a multiple of 10 and lies in
\* 00..80 (90 goes to 80) and whose longitude bin is likewise cut down and
\* lies in 000..170 (180 goes to 170); the label decides the 10x10 degree
\* cell and the hemispheres of the point, so two points get the same label
\* only if they lie in the same cell; point_to_region(63, 128) = N60E120.
C20_LabelIsTheCellOfThePoint ==
    call.op = "point_to_region"
    => LET label == call.out.ret
           cell == Decoded(label)
       IN  /\ call.out.raised = None
           /\ Len(label) = 7
           /\ label = cell.ns \o Fmt02d(cell.lat) \o cell.ew \o Fmt03d(cell.lon)
           /\ cell.ns \in {"N", "S"} /\ cell.ew \in {"E", "W"}
           /\ cell.lat \in {10 * k : k \in 0..8}
           /\ cell.lon \in {10 * k : k \in 0..17}
           /\ cell.lat = BinOf(call.arg.lat.abs, 90)
           /\ cell.lon = BinOf(call.arg.lon.abs, 180)
           /\ (cell.ns = "S") = call.arg.lat.signbit
           /\ (cell.ew = "W") = call.arg.lon.signbit
           /\ (call.arg.lat = Float(63) /\ call.arg.lon = Float(128)) => label = "N60E120"

\* the pole on the date line was put into the last bins
C20_Witness ==
    /\ call.op = "point_to_region"
    /\ call.arg.lat = Float(90)
    /\ call.arg.lon = Float(-180)
    /\ call.out.ret = "N80W170"


\* C21: point_to_region takes the hemisphere letters from the sign bits of
\* the coordinates, not from a comparison with zero: latitude -0.0 gives 'S'
\* and +0.0 'N', longitude -0.0 gives 'W' and +0.0 'E', so
\* point_to_region(-0.0, 0.0) = S00E000, point_to_region(-0.0, -0.0) =
\* S00W000 and point_to_region(0.0, -0.0) = N00W000.
C21_HemisphereFromSignBit ==
    call.op = "point_to_region"
    => LET lat == call.arg.lat
           lon == call.arg.lon
           label == call.out.ret
       IN  /\ SubSeq(label, 1, 1) = (IF lat.signbit THEN "S" ELSE "N")
           /\ SubSeq(label, 4, 4) = (IF lon.signbit THEN "W" ELSE "E")
           /\ (lat = NegativeZero /\ lon = Float(0)) => label = "S00E000"
           /\ (lat = NegativeZero /\ lon = NegativeZero) => label = "S00W000"
           /\ (lat = Float(0) /\ lon = NegativeZero) => label = "N00W000"
           /\ (lat = Float(0) /\ lon = Float(0)) => label = "N00E000"

\* the tiler was applied to -0.0, -0.0
C21_Witness ==
    /\ call.op = "point_to_region"
    /\ call.arg.lat = NegativeZero
    /\ call.arg.lon = NegativeZero
    /\ call.out.ret = "S00W000"


(***************************************************************************)
(* C22: the labels regions_from_bounds returns.                            *)
(***************************************************************************)
\* the grid points lo, lo + 10, ... below hi + 10, the first being lo itself
ClaimedGrid(lo, hi) ==
    {IF i = 0 THEN lo ELSE Float(Value(lo) + 10 * i) :
        i \in {j \in 0..40 : Value(lo) + 10 * j < Value(hi) + 10}}

ClaimedRegions(box) ==
    {point_to_region(lat, lon) : lat \in ClaimedGrid(box.min_lat, box.max_lat),
                                 lon \in ClaimedGrid(box.min_lon, box.max_lon)}

Degenerate(box) == box.min_lat = box.max_lat /\ box.min_lon = box.max_lon

TestBox == [min_lon |-> Float(-128), min_lat |-> Float(-63),
            max_lon |-> Float(-109), max_lat |-> Float(-54)]

RegionsAsClaimed ==
    /\ call.out.ret = ClaimedRegions(call.arg)
    /\ Degenerate(call.arg) =>
          call.out.ret = {point_to_region(call.arg.min_lat, call.arg.min_lon)}
    /\ call.arg = TestBox =>
          call.out.ret = {"S60W120", "S60W110", "S60W100", "S50W120", "S50W110", "S50W100"}

\* C22: regions_from_bounds returns exactly the labels of the grid points
\* (min_lat + 10i, min_lon + 10j) below (max_lat + 10, max_lon + 10): the six
\* labels of the box (-128, -63, -109, -54), and for a box with min = max the
\* one label of that point.
C22_RegionsAreTheGridLabels ==
    call.op = "regions_from_bounds" => RegionsAsClaimed

\* the same, for the boxes whose lower corner has no negative zero
C22_WithoutNegativeZero ==
    (/\ call.op = "regions_from_bounds"
     /\ call.arg.min_lat # NegativeZero
     /\ call.arg.min_lon # NegativeZero) => RegionsAsClaimed

\* the box of the example and a box that is one point have been tiled
C22_TestBoxTiled ==
    call.op = "regions_from_bounds" /\ call.arg = TestBox

C22_NegativeZeroPointTiled ==
    /\ call.op = "regions_from_bounds"
    /\ Degenerate(call.arg)
    /\ call.arg.min_lat = NegativeZero
    /\ call.out.ret = {"N00E000"}


(***************************************************************************)
(* SpecSubmit: submit_pairs_for_processing on candidate tables.  Each step *)
(* is one call on the current table within one process: the jobs it sends  *)
(* join the job store, the module-level template keeps what the call wrote *)
(* into it, and another table is drawn for the next call.                  *)
(***************************************************************************)
SubmitRow(reference, secondary, job_name) ==
    [reference |-> <<reference>>, secondary |-> <<secondary>>, job_name |-> job_name,
     reference_acquisition |-> 0, datetime |-> 0, bounds |-> <<>>]

\* the pairs of test_submit_pairs_for_processing and one of another reference
SubmitRows ==
    {SubmitRow("LC08_0128", "LC09_0120", "LC08_0128"),
     SubmitRow("LC08_0128", "LC08_0112", "LC08_0128"),
     SubmitRow(Sentinel2RefName, "S2A_MSIL1C_0510_N0510_R110_T22TCR", Sentinel2RefName)}

MaxPairs == 2

SubmitTables == {DataFrame(LandsatColumns, rows) : rows \in SeqsUpTo(SubmitRows, MaxPairs)}

InitSubmit ==
    /\ catalog = EmptyCatalog
    /\ jobs_table = <<>>
    /\ bucket = {}
    /\ AUTORIFT_JOB_TEMPLATE = TemplateAtImport
    /\ pairs \in SubmitTables
    /\ call = NoCall
    /\ now = 0

SubmitPairs ==
    /\ now < MaxInvocations
    /\ \E out \in {submit_pairs_for_processing(pairs, AUTORIFT_JOB_TEMPLATE, InvocationTime(now))},
          next \in SubmitTables :
          /\ call' = [op |-> "submit_pairs_for_processing", arg |-> pairs, out |-> out]
          /\ jobs_table' = jobs_table \o out.ret
          /\ AUTORIFT_JOB_TEMPLATE' = out.template
          /\ pairs' = next
          /\ now' = now + 1
          /\ UNCHANGED <<catalog, bucket>>

NextSubmit == SubmitPairs

SpecSubmit == InitSubmit /\ [][NextSubmit]_vars

(***************************************************************************)
(* C23: the jobs submit_pairs_for_processing hands to the API.             *)
(***************************************************************************)
SubmitCalled == call.op = "submit_pairs_for_processing" /\ call.out.raised = None

\* the job sent for the pair at position i is that pair's
JobOfItsPair(i) ==
    /\ call.out.ret[i].job_parameters.reference = call.arg.rows[i].reference
    /\ call.out.ret[i].job_parameters.secondary = call.arg.rows[i].secondary
    /\ call.out.ret[i].name = call.arg.rows[i].job_name

\* C23: submit_pairs_for_processing sends one prepared job per pair, in pair
\* order, and each job carries the reference, the secondary and the job name
\* of its own pair, also when several pairs are submitted together.
C23_EachJobCarriesItsPair ==
    SubmitCalled =>
        /\ Len(call.out.ret) = Len(call.arg.rows)
        /\ \A i \in DOMAIN call.arg.rows : JobOfItsPair(i)

\* what does hold: one job per pair, every job carrying the reference and
\* the secondary of the last pair, and no name
C23_EachJobCarriesTheLastPair ==
    SubmitCalled =>
        /\ Len(call.out.ret) = Len(call.arg.rows)
        /\ \A i \in DOMAIN call.arg.rows :
              /\ call.out.ret[i].job_parameters.reference = Last(call.arg.rows).reference
              /\ call.out.ret[i].job_parameters.secondary = Last(call.arg.rows).secondary
              /\ call.out.ret[i].name = None

\* two pairs of different secondaries were submitted together
C23_TwoPairsSubmitted ==
    /\ SubmitCalled
    /\ Len(call.arg.rows) = 2
    /\ call.arg.rows[1].secondary # call.arg.rows[2].secondary
    /\ call.out.ret[1].job_parameters.secondary = call.arg.rows[2].secondary


(***************************************************************************)
(* C24: the module-level state across invocations of process_scene.        *)
(***************************************************************************)
\* C24: after any sequence of invocations of process_scene in one process,
\* the module-level state a later invocation reads, the job template
\* AUTORIFT_JOB_TEMPLATE with its nested job_parameters included, equals its
\* value at process start.  (The burst and frame tables and the tile sets
\* are never assigned: they are definitions here.)
C24_TemplateAsAtImport ==
    AUTORIFT_JOB_TEMPLATE = TemplateAtImport

\* what does hold: the jobs an invocation submits are those it would submit
\* with the template as it was at import
C24_JobsAsWithTemplateAtImport ==
    [][(/\ call.op = "lambda_handler"
        /\ call'.op = "lambda_handler"
        /\ Len(call'.out.attempts) = Len(call.out.attempts) + 1)
       => LET record == call.arg.Records[Len(call.out.attempts) + 1]
          IN  try_record(record, AUTORIFT_JOB_TEMPLATE, InvocationTime(now)).jobs
              = try_record(record, TemplateAtImport, InvocationTime(now)).jobs]_vars

\* an invocation has submitted a pair and left it in the template
C24_TemplateHoldsAPair ==
    /\ call.op = "lambda_handler"
    /\ Len(call.out.attempts) = 1
    /\ call.out.attempts[1].jobs # <<>>
    /\ AUTORIFT_JOB_TEMPLATE.job_parameters.reference
           = call.out.attempts[1].jobs[1].job_parameters.reference
    /\ AUTORIFT_JOB_TEMPLATE.job_parameters.reference # <<>>


(***************************************************************************)
(* SpecInFlight: deduplicate_hyp3_pairs on the tables of the Sentinel-1    *)
(* pair search for a burst of both frames, against a job store that holds  *)
(* jobs for the pairs of either frame.                                     *)
(***************************************************************************)
\* the reference pass at noon, the pass six days before it and, in one
\* catalog, the pass thirteen days before it; no pass misses a burst
InFlightCatalogs ==
    LET t == 20 * Day + 12 * 60 * Minute
    IN  {[EmptyCatalog EXCEPT !.sentinel1 =
              Concat(<<PassProducts("P0", t, {}), PassProducts("P2", t - 6 * Day, {})>> \o older)]
            : older \in {<<>>, <<PassProducts("P4", t - 13 * Day, {})>>}}

\* the burst of the reference pass that belongs to both frames
SharedReference(c) ==
    The({p \in Range(c.sentinel1) : IsReferenceProduct(p) /\ p.fullBurstID = "b05"})

\* jobs for the pairs of a table, under the pairs' job names
JobsFor(df) ==
    {HyP3Job(status_code, EARTHDATA_USERNAME, row.job_name,
             format_time(row.reference_acquisition) + Day, row.reference, row.secondary, <<>>)
        : row \in Range(df.rows), status_code \in {"PENDING", "RUNNING", "SUCCEEDED"}}

InitInFlight ==
    /\ catalog \in InFlightCatalogs
    /\ pairs = get_sentinel1_pairs_for_reference_scene(SharedReference(catalog)).ret
    /\ jobs_table \in SeqsUpTo(JobsFor(pairs), MaxJobs)
    /\ bucket = {}
    /\ AUTORIFT_JOB_TEMPLATE = TemplateAtImport
    /\ call = NoCall
    /\ now = 0

NextInFlight == DedupHyp3

SpecInFlight == InitInFlight /\ [][NextInFlight]_vars

(***************************************************************************)
(* C25: in-flight dedup of a table with several job names.                 *)
(***************************************************************************)
\* a PENDING or RUNNING job of the user for the pair of the row, under the
\* row's job name, requested at or after the row's reference acquisition
InFlightForRow(row) ==
    {j \in Range(jobs_table) :
        /\ j.status_code \in {"PENDING", "RUNNING"}
        /\ j.user_id = EARTHDATA_USERNAME
        /\ j.name = row.job_name
        /\ j.request_time >= row.reference_acquisition
        /\ get_reference_secondary_from_Job(j) = <<row.reference, row.secondary>>}

SeveralJobNames(df) ==
    \E r1 \in Range(df.rows), r2 \in Range(df.rows) :
        r1.job_name # r2.job_name \/ r1.reference_acquisition # r2.reference_acquisition

DedupHyp3Returned == call.op = "deduplicate_hyp3_pairs" /\ call.out.raised = None

\* C25: when the table passed to deduplicate_hyp3_pairs holds pairs of
\* different job names or reference acquisitions, no pair it returns has the
\* (reference, secondary) of a PENDING or RUNNING job of the user that
\* carries that pair's job_name and was requested at or after that pair's
\* reference acquisition.
C25_EveryPairCheckedUnderItsName ==
    (DedupHyp3Returned /\ SeveralJobNames(call.arg))
        => \A row \in Range(call.out.ret.rows) : InFlightForRow(row) = {}

\* what does hold: the surviving pairs named as the table's first pair have
\* no such job
C25_FirstNameChecked ==
    DedupHyp3Returned
        => \A row \in Range(call.out.ret.rows) :
              row.job_name = call.arg.rows[1].job_name => InFlightForRow(row) = {}

\* a pair of the second job name survived with its job PENDING
C25_SecondNameSurvived ==
    /\ DedupHyp3Returned
    /\ SeveralJobNames(call.arg)
    /\ \E row \in Range(call.out.ret.rows) :
          /\ row.job_name # call.arg.rows[1].job_name
          /\ \E j \in InFlightForRow(row) : j.status_code = "PENDING"


(***************************************************************************)
(* C26: day-groups that fail frame qualification (sentinel1.py:142-159).   *)
(***************************************************************************)
Sentinel1PairsCalled ==
    /\ call.op = "get_sentinel1_pairs_for_reference_scene"
    /\ get_frame_stacks(call.arg).raised = None

\* the frames of the reference burst whose most recent day-group fails
FramesWithFailingReferenceGroup(reference) ==
    {f \in Range(BURST_IDS_TO_OPERA_FRAMES[reference.fullBurstID]) :
        ~frame_qualifies_for_sentinel1_processing(
            DayGroup(reference, f, Max(FrameDays(reference, f))), f)}

\* C26: in get_sentinel1_pairs_for_reference_scene a day-group that fails
\* frame qualification is excluded from pair emission and never makes the
\* call raise, the most recent (reference) day-group of a frame included.
C26_FailingDayGroupNeverRaises ==
    Sentinel1PairsCalled => call.out.raised = None

\* what does hold: the call raises only on a frame whose most recent
\* day-group fails; failing earlier day-groups are excluded
C26_RaisesOnlyOnReferenceGroup ==
    Sentinel1PairsCalled =>
        IF FramesWithFailingReferenceGroup(call.arg) = {}
        THEN call.out.raised = None
        ELSE call.out.raised = "AssertionError"

\* the call raised on the reference day-group of a frame with an earlier
\* day-group that qualifies
C26_RaisedOnReferenceGroup ==
    /\ Sentinel1PairsCalled
    /\ call.out.raised = "AssertionError"
    /\ \E f \in FramesWithFailingReferenceGroup(call.arg) :
          QualifyingEarlierDays(call.arg, f) # {}


(***************************************************************************)
(* C27: the reference day-group and the triggering burst                   *)
(* (sentinel1.py:64-70, 142-148).                                          *)
(***************************************************************************)
Within3Minutes(t1, t2) == t1 - t2 < 3 * Minute /\ t2 - t1 < 3 * Minute

\* the products of the assembled stacks with a scene name
ProductsNamed(reference, name) ==
    {p \in Range(get_frame_stacks(reference).ret) : p.sceneName = name}

\* the reference scenes of the pair hold a product of the triggering burst
\* id that starts within 3 minutes of the triggering burst
HoldsTriggeringPass(reference, row) ==
    \E name \in Range(row.reference) :
        \E p \in ProductsNamed(reference, name) :
            /\ p.fullBurstID = reference.fullBurstID
            /\ Within3Minutes(p.startTime, reference.startTime)

Sentinel1PairsReturned ==
    call.op = "get_sentinel1_pairs_for_reference_scene" /\ call.out.raised = None

\* C27: for every pair emitted by get_sentinel1_pairs_for_reference_scene,
\* the reference scene list contains a product of the triggering burst id
\* that starts within 3 minutes of the triggering burst, and
\* reference_acquisition is within 3 minutes of the triggering burst's start,
\* whatever the reference start time (a pass across midnight UTC included).
C27_ReferenceGroupIsTheTriggeringPass ==
    Sentinel1PairsReturned =>
        \A row \in Range(call.out.ret.rows) :
            /\ HoldsTriggeringPass(call.arg, row)
            /\ Within3Minutes(row.reference_acquisition, call.arg.startTime)


\* every product of the stacks acquired on the triggering burst's day or
\* later is of that day and starts within 3 minutes of the triggering burst
SinglePassDay(reference) ==
    \A p \in Range(get_frame_stacks(reference).ret) :
        DayOf(p.startTime) >= DayOf(reference.startTime)
            => /\ DayOf(p.startTime) = DayOf(reference.startTime)
               /\ Within3Minutes(p.startTime, reference.startTime)

\* what does hold: the same for a reference pass within one UTC day
C27_WithinOneDay ==
    (Sentinel1PairsReturned /\ SinglePassDay(call.arg)) =>
        \A row \in Range(call.out.ret.rows) :
            /\ HoldsTriggeringPass(call.arg, row)
            /\ Within3Minutes(row.reference_acquisition, call.arg.startTime)

\* a pair was emitted whose reference scenes are all of the reference pass,
\* acquired after midnight, and none of them is of the triggering burst,
\* acquired before midnight
C27_ReferenceGroupWithoutTrigger ==
    /\ Sentinel1PairsReturned
    /\ \E row \in Range(call.out.ret.rows) :
          /\ \A name \in Range(row.reference) : Split(name)[4] = "P0"
          /\ DayOf(row.reference_acquisition) = DayOf(call.arg.startTime) + 1
          /\ ~HoldsTriggeringPass(call.arg, row)


(***************************************************************************)
(* C28: regions_from_bounds and the points of its box (main.py:58-78).     *)
(***************************************************************************)
Between(lo, x, hi) == Value(lo) <= Value(x) /\ Value(x) <= Value(hi)

Covers(box, regions) ==
    \A lat \in {x \in Latitudes : Between(box.min_lat, x, box.max_lat)} :
        \A lon \in {x \in Longitudes : Between(box.min_lon, x, box.max_lon)} :
            point_to_region(lat, lon) \in regions

\* C28: for every box with min_lat <= max_lat within [-90, 90] and
\* min_lon <= max_lon within [-180, 180], the region of every point inside
\* the box is a member of regions_from_bounds(min_lon, min_lat, max_lon,
\* max_lat).
C28_RegionsCoverTheBox ==
    call.op = "regions_from_bounds" => Covers(call.arg, call.out.ret)

\* a lower bound from which the grid steps onto +0.0: a zero or a negative
\* multiple of ten
StepsOntoZero(x) == x.abs % 10 = 0 /\ (x.signbit \/ x.abs = 0)

\* what does hold: the same for the boxes whose lower bounds are neither
C28_CoversUnlessGridStepsOntoZero ==
    (/\ call.op = "regions_from_bounds"
     /\ ~StepsOntoZero(call.arg.min_lat)
     /\ ~StepsOntoZero(call.arg.min_lon))
    => Covers(call.arg, call.out.ret)

\* the box of latitudes -10..-1 was tiled without its region S00
C28_SouthOfEquatorMissed ==
    /\ call.op = "regions_from_bounds"
    /\ call.arg.min_lat = Float(-10)
    /\ call.arg.max_lat = Float(-1)
    /\ call.arg.min_lon = Float(5)
    /\ call.arg.max_lon = Float(5)
    /\ call.out.ret = {"S10E000", "N00E000"}
    /\ point_to_region(Float(-5), Float(5)) = "S00E000"


(***************************************************************************)
(* C29: the order of the dedup stages and of submission (main.py:301-322). *)
(***************************************************************************)
\* the keys of the pairs of a table
PairKeys(df) == {<<r.reference, r.secondary>> : r \in Range(df.rows)}

\* out is what process_scene gives for a scene whose pair search returned
\* the table found, with the stages in the claimed order: in_flight is what
\* the in-flight dedup makes of found, published what the already-published
\* dedup makes of the survivors of the in-flight dedup
StagesInOrder(scene, submit, found, out) ==
    LET in_flight == deduplicate_hyp3_pairs(found)
        runs_published == Len(found.rows) > 0
                          /\ in_flight.raised = None
                          /\ Len(in_flight.ret.rows) > 0
                          /\ ~StartsWith(scene, "S1")
        published == deduplicate_s3_pairs(in_flight.ret)
        survivors == IF runs_published THEN published.ret
                     ELSE IF Len(found.rows) > 0 THEN in_flight.ret
                     ELSE found
    IN  /\ ("hyp3" \in out.stages) = (Len(found.rows) > 0)
        /\ ("s3" \in out.stages) = runs_published
        /\ "hyp3" \in out.stages =>
              IF in_flight.raised # None THEN out.raised = in_flight.raised
              ELSE out.after_hyp3 = Len(in_flight.ret.rows)
        /\ "s3" \in out.stages =>
              IF published.raised # None THEN out.raised = published.raised
              ELSE out.after_s3 = Len(published.ret.rows)
        /\ ("submit" \in out.stages) => submit
        /\ out.ret # <<>> => "submit" \in out.stages
        /\ "submit" \in out.stages =>
              /\ Len(found.rows) > 0 => "hyp3" \in out.stages
              /\ runs_published => "s3" \in out.stages
              /\ Len(out.ret) = Len(survivors.rows)
              /\ \A i \in DOMAIN out.ret : JobPair(out.ret[i]) \in PairKeys(survivors)

\* C29: process_scene runs the in-flight dedup first; the already-published
\* dedup runs afterwards, on the pairs that survived the in-flight dedup
\* only, only when at least one survived, and never for a Sentinel-1 scene;
\* jobs are submitted only after both stages and only for pairs that
\* survived every stage that was applied.
C29_StagesInFixedOrder ==
    [][\A scene \in Scenes, submit \in BOOLEAN :
         (/\ now' = now + 1
          /\ call'.op = "process_scene"
          /\ call'.arg = [scene |-> scene, submit |-> submit]
          /\ find_pairs(scene).raised = None
          /\ find_pairs(scene).ret # <<>>)
         => StagesInOrder(scene, submit, find_pairs(scene).ret[1], call'.out)]_vars

\* an invocation in which the in-flight dedup dropped a pair, the
\* already-published dedup dropped one of the survivors, and what was left
\* was submitted
C29_Witness ==
    /\ call.op = "process_scene"
    /\ call.out.raised = None
    /\ call.out.stages = {"hyp3", "s3", "submit"}
    /\ call.out.after_hyp3 < call.out.found
    /\ call.out.after_s3 < call.out.after_hyp3
    /\ call.out.after_s3 >= 1
    /\ Len(call.out.ret) = call.out.after_s3


(***************************************************************************)
(* C30: the checks of a qualification chain taken one by one               *)
(* (landsat.py:51-73, sentinel2.py:135-181).  A check passes, fails or     *)
(* raises: "pass", "fail" or the name of the exception.                    *)
(***************************************************************************)
\* the six checks of qualifies_for_landsat_processing, in the order written
landsat_checks(item, max_cloud_cover) ==
    << IF item.collection_id # LANDSAT_COLLECTION_NAME THEN "fail" ELSE "pass",
       IF "OLI" \notin item.instruments THEN "fail" ELSE "pass",
       IF item.category \notin {"T1", "T2"} THEN "fail" ELSE "pass",
       IF (item.wrs_path \o item.wrs_row) \notin LANDSAT_TILES_TO_PROCESS THEN "fail" ELSE "pass",
       \* properties.get('landsat:cloud_cover_land', -1) < 0
       IF (IF item.cloud_cover_land = <<>> THEN -1 ELSE item.cloud_cover_land[1]) < 0
       THEN "fail" ELSE "pass",
       \* properties['landsat:cloud_cover_land'] > max_cloud_cover
       IF item.cloud_cover_land = <<>> THEN "KeyError"
       ELSE IF item.cloud_cover_land[1] > max_cloud_cover THEN "fail" ELSE "pass" >>

\* the nine checks of qualifies_for_sentinel2_processing, in the order written
sentinel2_checks(item, relative_orbit, max_cloud_cover) ==
    LET item_scene_id == removesuffix_SAFE(item.product_uri)
    IN  << IF relative_orbit # None /\ Split(item_scene_id)[5] # relative_orbit
           THEN "fail" ELSE "pass",
           IF item.collection_id # SENTINEL2_COLLECTION_NAME THEN "fail" ELSE "pass",
           IF ~is_new_scene(item_scene_id) THEN "fail" ELSE "pass",
           IF ~EndsWith(item.product_type, "1C") THEN "fail" ELSE "pass",
           IF "msi" \notin item.instruments THEN "fail" ELSE "pass",
           IF item.grid_code \notin SENTINEL2_TILES_TO_PROCESS THEN "fail" ELSE "pass",
           IF (IF item.cloud_cover = <<>> THEN -1 ELSE item.cloud_cover[1]) < 0
           THEN "fail" ELSE "pass",
           IF item.cloud_cover = <<>> THEN "KeyError"
           ELSE IF item.cloud_cover[1] > max_cloud_cover THEN "fail" ELSE "pass",
           IF get_data_coverage_for_item(item).raised # None
           THEN get_data_coverage_for_item(item).raised
           ELSE IF get_data_coverage_for_item(item).ret <= SENTINEL2_MIN_DATA_COVERAGE
                THEN "fail" ELSE "pass" >>

RECURSIVE chain_outcome(_, _)
\* the checks evaluated in an order: the first that does not pass ends the
\* chain, with False or with its exception
chain_outcome(checks, order) ==
    IF order = <<>> THEN Return(TRUE)
    ELSE IF checks[Head(order)] = "pass" THEN chain_outcome(checks, Tail(order))
    ELSE IF checks[Head(order)] = "fail" THEN Return(FALSE)
    ELSE Raise(checks[Head(order)])

RECURSIVE Orderings(_)
\* every order of the checks in S
Orderings(S) ==
    IF S = {} THEN {<<>>}
    ELSE UNION {{<<x>> \o rest : rest \in Orderings(S \ {x})} : x \in S}

\* the order written, with check k moved to the front
MovedToFront(n, k) == <<k>> \o [i \in 1..(n - 1) |-> IF i < k THEN i ELSE i + 1]

\* the order written: 1, 2, ..., n
AsWritten(n) == [i \in 1..n |-> i]

\* every order of the six Landsat checks
LandsatOrders == Orderings(1..6)

\* orders of the nine Sentinel-2 checks: each check first, and the reverse
Sentinel2Orders == {MovedToFront(9, k) : k \in 1..9} \cup {Reverse(AsWritten(9))}

\* the checks of the call in the state, and the orders they are tried in
ChecksOfCall ==
    IF call.op = "qualifies_for_landsat_processing"
    THEN landsat_checks(call.arg.item,
                        ThresholdOf(call.arg.max_cloud_cover, LANDSAT_MAX_CLOUD_COVER_PERCENT))
    ELSE sentinel2_checks(call.arg.item, call.arg.relative_orbit,
                          ThresholdOf(call.arg.max_cloud_cover, SENTINEL2_MAX_CLOUD_COVER_PERCENT))

OrdersOfCall ==
    IF call.op = "qualifies_for_landsat_processing" THEN LandsatOrders ELSE Sentinel2Orders

QualificationCalled ==
    call.op \in {"qualifies_for_landsat_processing", "qualifies_for_sentinel2_processing"}

====
